---- MODULE Spec2Model ----
(***************************************************************************)
(* go-errorsx: the copy-on-write Error value, its builder methods, the     *)
(* Type() resolution (explicit type, instance inferer, global inferer,     *)
(* cache and recursion guard) and the chain traversals.                    *)
(*                                                                         *)
(* Every error value of the program lives in `heap`; a pointer is an       *)
(* index into it and 0 is nil.  A builder method appends its clone to the  *)
(* heap and never rewrites an older entry.  Type() runs as a small machine *)
(* over the call stack `cs`, because inferers are user code that may call  *)
(* Type() again.                                                           *)
(***************************************************************************)
EXTENDS Integers, Sequences, FiniteSets, TLC

VARIABLES heap, globalInferer, cs, calls, last, filter, infererMutex, stored,
          firstType

vars ==
    <<heap, globalInferer, cs, calls, last, filter, infererMutex, stored, firstType>>

(***************************************************************************)
(* Bounds of the model.                                                    *)
(***************************************************************************)
MaxObjs == 2
MaxOpts == 2
MaxCalls == 3

(***************************************************************************)
(* Program constants.                                                      *)
(***************************************************************************)
MaxStackFrames == 32

TypeUnknown == "errorsx.unknown"

\* computedErrType = "" means "nothing cached" in Error.Type.
NoCache == ""

\* ErrorType is a string type: its zero value is the empty string.
EmptyType == ""

Nil == 0

(***************************************************************************)
(* Inferers (ErrorTypeInferer values).  An inferer is user code; the model *)
(* knows eight shapes of it:                                               *)
(*   nil    no inferer                                                     *)
(*   const  returns the category t                                         *)
(*   self   calls e.Type() on its own argument, returns t when that gives  *)
(*          TypeUnknown and the inner result otherwise                     *)
(*   stack  StackTraceInferer(matcher); t is what the matcher returns when *)
(*          the cause type is a database type, TypeUnknown otherwise       *)
(*   chain  ChainInferers(t[1], ..., t[n]); t is the sequence of members   *)
(*   clone  keeps e.WithReason("seen") for later use and returns t         *)
(*   setter   calls SetGlobalTypeInferer(a constant inferer of t), and     *)
(*   clearer  calls ClearGlobalTypeInferer(); both then return t           *)
(***************************************************************************)
NoInf == [k |-> "nil", t |-> TypeUnknown]

ConstInf(t) == [k |-> "const", t |-> t]

SelfInf(t) == [k |-> "self", t |-> t]

StackInf(t) == [k |-> "stack", t |-> t]

CloneInf(t) == [k |-> "clone", t |-> t]

SetterInf(t) == [k |-> "setter", t |-> t]

ClearerInf(t) == [k |-> "clearer", t |-> t]

\* ChainInferers(inferers...)
ChainInf(inferers) == [k |-> "chain", t |-> inferers]

(***************************************************************************)
(* Error values.  kind is "native" for *errorsx.Error, "wrapper" for a     *)
(* foreign error with Unwrap() error (fmt.Errorf("%w")), "join" for        *)
(* *joinError and "leaf" for a foreign error with nothing to unwrap.       *)
(***************************************************************************)
Blank ==
    [kind |-> "leaf", id |-> "", msg |-> "", errType |-> TypeUnknown,
     typeInferer |-> NoInf, status |-> 0, messageData |-> "nil",
     stacks |-> <<>>, cause |-> Nil, stackTraceCleaner |-> "nil",
     isNotFound |-> FALSE, isRetryable |-> FALSE, isStacked |-> FALSE,
     computedErrType |-> NoCache, computing |-> FALSE, errs |-> <<>>]

IsNative(h, p) == p # Nil /\ h[p].kind = "native"

\* The fields a caller can observe through the accessors (everything but
\* the resolution cache and its in-progress mark).
Public(o) ==
    [kind |-> o.kind, id |-> o.id, msg |-> o.msg, errType |-> o.errType,
     typeInferer |-> o.typeInferer, status |-> o.status,
     messageData |-> o.messageData, stacks |-> o.stacks, cause |-> o.cause,
     stackTraceCleaner |-> o.stackTraceCleaner, isNotFound |-> o.isNotFound,
     isRetryable |-> o.isRetryable, isStacked |-> o.isStacked, errs |-> o.errs]

(***************************************************************************)
(* Options of New (functional options applied in order to the new value).  *)
(***************************************************************************)
\* (mutant) the option sets the type and leaves the inferer in place.
OptWithTypeKeepsInferer(e, errType) == [e EXCEPT !.errType = errType]

OptWithType(e, errType) ==
    [e EXCEPT !.errType = errType, !.typeInferer = NoInf,
              !.computedErrType = NoCache, !.computing = FALSE]

OptWithTypeInferer(e, inferer) ==
    [e EXCEPT !.typeInferer = inferer, !.errType = TypeUnknown,
              !.computedErrType = NoCache, !.computing = FALSE]

OptWithHTTPStatus(e, status) == [e EXCEPT !.status = status]

OptWithMessage(e, data) == [e EXCEPT !.messageData = data]

OptWithNotFound(e) == [e EXCEPT !.isNotFound = TRUE]

OptWithRetryable(e) == [e EXCEPT !.isRetryable = TRUE]

ApplyOpt(e, opt) ==
    CASE opt.o = "WithType" -> OptWithType(e, opt.a)
      [] opt.o = "WithTypeInferer" -> OptWithTypeInferer(e, opt.a)
      [] opt.o = "WithHTTPStatus" -> OptWithHTTPStatus(e, opt.a)
      [] opt.o = "WithMessage" -> OptWithMessage(e, opt.a)
      [] opt.o = "WithNotFound" -> OptWithNotFound(e)
      [] opt.o = "WithRetryable" -> OptWithRetryable(e)

RECURSIVE ApplyOpts(_, _)
ApplyOpts(e, opts) ==
    IF opts = <<>> THEN e
    ELSE ApplyOpts(ApplyOpt(e, Head(opts)), Tail(opts))

New(id, opts) ==
    ApplyOpts([Blank EXCEPT !.kind = "native", !.id = id, !.msg = id,
                            !.errType = TypeUnknown, !.stacks = <<>>,
                            !.isNotFound = FALSE, !.isRetryable = FALSE,
                            !.isStacked = FALSE],
              opts)

(***************************************************************************)
(* Stack capture.  goStack is the calling goroutine's stack, innermost     *)
(* frame first, with runtime.Callers on top.  runtime.Callers(n) skips n   *)
(* frames (0 is Callers itself) and fills at most MaxStackFrames entries.  *)
(***************************************************************************)
RuntimeCallers(skip, goStack) ==
    LET rest == IF skip >= Len(goStack) THEN <<>>
                ELSE SubSeq(goStack, skip + 1, Len(goStack))
    IN  IF Len(rest) > MaxStackFrames THEN SubSeq(rest, 1, MaxStackFrames)
        ELSE rest

\* callersWithSkip is called by `via` (the frames between it and user code).
callersWithSkip(skip, via, user) ==
    RuntimeCallers(3 + skip, <<"runtime.Callers", "callersWithSkip">> \o via \o user)

callers(via, user) == callersWithSkip(1, <<"callers">> \o via, user)

(***************************************************************************)
(* Builder methods.  Each takes the heap h and the receiver p and returns  *)
(* [h |-> the heap afterwards, ret |-> the pointer returned].  `clone :=   *)
(* *e; ...; return &clone` is Append(h, clone); `return e` is ret |-> p.   *)
(***************************************************************************)
Alloc(h, clone) == [h |-> Append(h, clone), ret |-> Len(h) + 1]

Same(h, p) == [h |-> h, ret |-> p]

\* (mutant) WithReason relabelling the snapshots with the new message.
WithReasonRelabels(h, p, reason) ==
    Alloc(h, [h[p] EXCEPT
        !.msg = reason,
        !.stacks = [i \in DOMAIN h[p].stacks |-> [h[p].stacks[i] EXCEPT !.Msg = reason]]])

WithReason(h, p, reason) == Alloc(h, [h[p] EXCEPT !.msg = reason])

\* (mutant) WithMessage writing the payload into the receiver.
WithMessageInPlace(h, p, data) ==
    [h |-> [h EXCEPT ![p].messageData = data], ret |-> p]

WithMessage(h, p, data) == Alloc(h, [h[p] EXCEPT !.messageData = data])

WithType(h, p, typ) ==
    Alloc(h, [h[p] EXCEPT !.errType = typ, !.typeInferer = NoInf,
                          !.computedErrType = NoCache, !.computing = FALSE])

WithTypeInferer(h, p, inferer) ==
    Alloc(h, [h[p] EXCEPT !.typeInferer = inferer, !.errType = TypeUnknown,
                          !.computedErrType = NoCache, !.computing = FALSE])

WithHTTPStatus(h, p, status) == Alloc(h, [h[p] EXCEPT !.status = status])

WithNotFound(h, p) == Alloc(h, [h[p] EXCEPT !.isNotFound = TRUE])

\* (mutant) WithRetryable building its result from a fresh flag set.
WithRetryableClearsNotFound(h, p) ==
    Alloc(h, [h[p] EXCEPT !.isRetryable = TRUE, !.isNotFound = FALSE])

WithRetryable(h, p) == Alloc(h, [h[p] EXCEPT !.isRetryable = TRUE])

WithStackTraceCleaner(h, p, cleaner) ==
    Alloc(h, [h[p] EXCEPT !.stackTraceCleaner = cleaner])

\* (mutant) WithStack without the isStacked check.
WithStackViaNoGuard(h, p, skip, via, user) ==
    Alloc(h, [h[p] EXCEPT
        !.stacks = <<[Frames |-> callersWithSkip(skip, via, user),
                      Msg |-> h[p].msg]>> \o h[p].stacks,
        !.isStacked = TRUE])

\* (mutant) WithStack that does not set isStacked.
WithStackViaNoFlag(h, p, skip, via, user) ==
    IF h[p].isStacked THEN Same(h, p)
    ELSE Alloc(h, [h[p] EXCEPT
             !.stacks = <<[Frames |-> callersWithSkip(skip, via, user),
                           Msg |-> h[p].msg]>> \o h[p].stacks])

\* via: the library frames between callersWithSkip and the user's code.
WithStackVia(h, p, skip, via, user) ==
    IF h[p].isStacked THEN Same(h, p)
    ELSE Alloc(h, [h[p] EXCEPT
             !.stacks = <<[Frames |-> callersWithSkip(skip, via, user),
                           Msg |-> h[p].msg]>> \o h[p].stacks,
             !.isStacked = TRUE])

WithStack(h, p, skip, user) == WithStackVia(h, p, skip, <<"WithStack">>, user)

WithCallerStack(h, p, user) ==
    WithStackVia(h, p, 1, <<"WithStack", "WithCallerStack">>, user)

\* (mutant) WithCause that captures the stack but does not set the cause.
WithCauseDropsCause(h, p, cause, user) ==
    IF h[p].isStacked THEN Same(h, p)
    ELSE Alloc(h, [h[p] EXCEPT
             !.stacks = <<[Frames |-> callers(<<"WithCause">>, user),
                           Msg |-> h[p].msg]>> \o h[p].stacks,
             !.isStacked = TRUE])

\* (mutant) WithCause that does not keep the snapshots of the cause.
WithCauseOwnStackOnly(h, p, cause, user) ==
    IF h[p].isStacked THEN Same(h, p)
    ELSE Alloc(h, [h[p] EXCEPT
             !.cause = cause,
             !.stacks = <<[Frames |-> callers(<<"WithCause">>, user),
                           Msg |-> h[p].msg]>> \o h[p].stacks,
             !.isStacked = TRUE])

WithCause(h, p, cause, user) ==
    IF h[p].isStacked THEN Same(h, p)
    ELSE LET own == <<[Frames |-> callers(<<"WithCause">>, user),
                       Msg |-> h[p].msg]>> \o h[p].stacks
             all == IF IsNative(h, cause) /\ Len(h[cause].stacks) > 0
                    THEN own \o h[cause].stacks
                    ELSE own
         IN  Alloc(h, [h[p] EXCEPT !.cause = cause, !.stacks = all,
                                   !.isStacked = TRUE])

(***************************************************************************)
(* Foreign errors and Join.                                                *)
(***************************************************************************)
\* errors.New("...") of the standard library.
StdNew(h) == Alloc(h, [Blank EXCEPT !.kind = "leaf", !.msg = "std"])

\* fmt.Errorf("wrap: %w", inner).
StdWrap(h, inner) ==
    Alloc(h, [Blank EXCEPT !.kind = "wrapper", !.msg = "wrap", !.cause = inner])

\* The non-nil members of errs, in order.
RECURSIVE NonNil(_)
NonNil(errs) ==
    IF errs = <<>> THEN <<>>
    ELSE IF Head(errs) = Nil THEN NonNil(Tail(errs))
    ELSE <<Head(errs)>> \o NonNil(Tail(errs))

\* (mutant) Join that keeps the nil arguments.
JoinKeepsNil(h, errs) ==
    IF Len(NonNil(errs)) = 0 THEN [h |-> h, ret |-> Nil]
    ELSE Alloc(h, [Blank EXCEPT !.kind = "join", !.errs = errs])

Join(h, errs) ==
    IF Len(NonNil(errs)) = 0 THEN [h |-> h, ret |-> Nil]
    ELSE Alloc(h, [Blank EXCEPT !.kind = "join", !.errs = NonNil(errs)])

(***************************************************************************)
(* Unwrapping and errors.Is, as the standard library walks the values.     *)
(***************************************************************************)
\* errors.Unwrap: the result of the value's Unwrap() error method, if any.
Unwrap(h, p) ==
    IF p # Nil /\ h[p].kind \in {"native", "wrapper"} THEN h[p].cause ELSE Nil

RECURSIVE ErrorsIs(_, _, _)
\* (mutant) Is comparing the explicit types as well as the ids.
ErrorIsSameType(h, e, target) ==
    IF e = Nil THEN FALSE
    ELSE IF e = target THEN TRUE
    ELSE IF ~IsNative(h, target) THEN ErrorsIs(h, h[e].cause, target)
    ELSE h[e].id = h[target].id /\ h[e].errType = h[target].errType

\* (*Error).Is.
ErrorIs(h, e, target) ==
    IF e = Nil THEN FALSE
    ELSE IF e = target THEN TRUE
    ELSE IF ~IsNative(h, target) THEN ErrorsIs(h, h[e].cause, target)
    ELSE h[e].id = h[target].id

\* errors.Is of the standard library (pointers are comparable).
ErrorsIs(h, err, target) ==
    IF err = Nil \/ target = Nil THEN err = target
    ELSE IF err = target THEN TRUE
    ELSE IF IsNative(h, err) /\ ErrorIs(h, err, target) THEN TRUE
    ELSE IF h[err].kind \in {"native", "wrapper"}
    THEN (h[err].cause # Nil /\ ErrorsIs(h, h[err].cause, target))
    ELSE IF h[err].kind = "join"
    THEN \E i \in DOMAIN h[err].errs : ErrorsIs(h, h[err].errs[i], target)
    ELSE FALSE

RECURSIVE ErrorsAsFirst(_, _)
\* errors.As(err, &e) with e of type *Error: the first native value met going
\* down Unwrap() error links and, depth first in order, Unwrap() []error
\* members; Nil when there is none.
RECURSIVE ErrorsAs(_, _)
ErrorsAs(h, err) ==
    IF err = Nil THEN Nil
    ELSE IF IsNative(h, err) THEN err
    ELSE IF h[err].kind = "wrapper" THEN ErrorsAs(h, h[err].cause)
    ELSE IF h[err].kind = "join" THEN ErrorsAsFirst(h, h[err].errs)
    ELSE Nil

\* The loop of errors.As over the members of a join.
ErrorsAsFirst(h, errs) ==
    IF errs = <<>> THEN Nil
    ELSE IF ErrorsAs(h, Head(errs)) # Nil THEN ErrorsAs(h, Head(errs))
    ELSE ErrorsAsFirst(h, Tail(errs))

(***************************************************************************)
(* Error() strings, RootCause and the flag predicates.                     *)
(***************************************************************************)
RECURSIVE ErrorText(_, _)
RECURSIVE JoinErrorText(_, _, _, _)
\* joinError.Error: the loop over e.errs from index i on, b the builder's
\* content so far.
JoinErrorText(h, errs, i, b) ==
    IF i > Len(errs) THEN b
    ELSE JoinErrorText(h, errs, i + 1,
             IF i > 1 THEN b \o "; " \o ErrorText(h, errs[i])
             ELSE b \o ErrorText(h, errs[i]))

\* err.Error(): a native value's msg, the text of an errors.New value, the
\* format of fmt.Errorf("wrap: %w", inner), the members of a join.
ErrorText(h, p) ==
    CASE h[p].kind = "native" -> h[p].msg
      [] h[p].kind = "leaf" -> h[p].msg
      [] h[p].kind = "wrapper" -> "wrap: " \o ErrorText(h, h[p].cause)
      [] h[p].kind = "join" -> JoinErrorText(h, h[p].errs, 1, "")

\* (mutant) RootCause that stops at the first native value.
RECURSIVE RootCauseLoopStopsAtNative(_, _, _)
RootCauseLoopStopsAtNative(h, err, lst) ==
    IF err = Nil THEN lst
    ELSE IF IsNative(h, err) THEN err
    ELSE RootCauseLoopStopsAtNative(h, Unwrap(h, err), err)

\* The loop of RootCause: lst is the variable last.
RECURSIVE RootCauseLoop(_, _, _)
RootCauseLoop(h, err, lst) ==
    IF err = Nil THEN lst
    ELSE IF IsNative(h, err) /\ h[err].cause # Nil
    THEN RootCauseLoop(h, h[err].cause, err)
    ELSE RootCauseLoop(h, Unwrap(h, err), err)

RootCause(h, err) == RootCauseLoop(h, err, Nil)

\* IsNotFound(err) of the package.
IsNotFound(h, err) ==
    IF err = Nil THEN FALSE
    ELSE IF ErrorsAs(h, err) # Nil THEN h[ErrorsAs(h, err)].isNotFound
    ELSE FALSE

\* IsRetryable(err) of the package.
IsRetryable(h, err) ==
    IF err = Nil THEN FALSE
    ELSE IF ErrorsAs(h, err) # Nil THEN h[ErrorsAs(h, err)].isRetryable
    ELSE FALSE

\* toStackTraceLines: one line "file:line function" per frame; the loop
\* appends a line before it looks at `more`, so a snapshot with no frames
\* gives the line of the zero runtime.Frame.  A function fn is taken to
\* stand at line 1 of fn.go.
toStackTraceLines(st) ==
    IF st.Frames = <<>> THEN <<":0 ">>
    ELSE [i \in DOMAIN st.Frames |-> st.Frames[i] \o ".go:1 " \o st.Frames[i]]

\* strings.Join(lines, "\n")
RECURSIVE JoinLines(_)
JoinLines(lines) ==
    IF lines = <<>> THEN ""
    ELSE IF Len(lines) = 1 THEN Head(lines)
    ELSE Head(lines) \o "\n" \o JoinLines(Tail(lines))

formatStackTrace(st) == JoinLines(toStackTraceLines(st))

\* RootStackTrace(err): the last snapshot of the first native value with
\* snapshots on the errors.Unwrap chain of err, formatted.
RECURSIVE RootStackTrace(_, _)
RootStackTrace(h, err) ==
    IF err = Nil THEN ""
    ELSE IF IsNative(h, err) /\ Len(h[err].stacks) > 0
    THEN formatStackTrace(h[err].stacks[Len(h[err].stacks)])
    ELSE RootStackTrace(h, Unwrap(h, err))

\* ReplaceMessage(err, data) called from user code with the frames user: a
\* copy with the new payload of the first native error errors.As finds, or
\* New("unknown.error").WithMessage(data).WithCause(err), whose WithCause is
\* called by ReplaceMessage itself.
ReplaceMessage(h, err, data, user) ==
    IF ErrorsAs(h, err) # Nil THEN WithMessage(h, ErrorsAs(h, err), data)
    ELSE LET r1 == Alloc(h, New("unknown.error", <<>>))
             r2 == WithMessage(r1.h, r1.ret, data)
         IN  WithCause(r2.h, r2.ret, err, <<"ReplaceMessage">> \o user)

(***************************************************************************)
(* Type(): the resolution machine.  A call stack is a sequence of frames,  *)
(* the running one last.  A "Type" frame is an activation of Error.Type    *)
(* past its two early returns; an "Inf" frame is a running inferer.  The   *)
(* frame fields ir, gr and gi record what the instance inferer returned,   *)
(* what the global inferer returned ("none": not invoked) and which global *)
(* inferer was read.                                                       *)
(***************************************************************************)
Threads == {"t1", "t2"}

TypeFrame(p) ==
    [f |-> "Type", obj |-> p, pc |-> "compute", inf |-> NoInf,
     rv |-> TypeUnknown, ir |-> "none", gr |-> "none", gi |-> NoInf,
     e |-> Nil, k |-> 0]

InfFrame(p, inferer) ==
    [f |-> "Inf", obj |-> p, pc |-> "run", inf |-> inferer,
     rv |-> TypeUnknown, ir |-> "none", gr |-> "none", gi |-> NoInf,
     e |-> Nil, k |-> 0]

\* An activation of the closure walk of FilterByType on err.
WalkFrame(err) ==
    [f |-> "Walk", obj |-> err, pc |-> "start", inf |-> NoInf,
     rv |-> TypeUnknown, ir |-> "none", gr |-> "none", gi |-> NoInf,
     e |-> Nil, k |-> 0]

Top(stack) == stack[Len(stack)]

Pop(stack) == SubSeq(stack, 1, Len(stack) - 1)

SetTop(stack, fr) == [stack EXCEPT ![Len(stack)] = fr]

handleRecursion(e) ==
    IF e.errType # TypeUnknown THEN e.errType ELSE TypeUnknown

\* (mutant) Type without the check of the in-progress mark.
TypeEntryNoGuard(h, p) ==
    IF h[p].computedErrType # NoCache
    THEN [path |-> "cached", v |-> h[p].computedErrType, h |-> h]
    ELSE [path |-> "run", v |-> TypeUnknown,
          h |-> [h EXCEPT ![p].computing = TRUE]]

\* Error.Type up to the call of computeErrorType: the cached result, the
\* recursion short-circuit, or the in-progress mark is set and the
\* computation runs ("run").
TypeEntry(h, p) ==
    IF h[p].computedErrType # NoCache
    THEN [path |-> "cached", v |-> h[p].computedErrType, h |-> h]
    ELSE IF h[p].computing
    THEN [path |-> "recursion", v |-> handleRecursion(h[p]), h |-> h]
    ELSE [path |-> "run", v |-> TypeUnknown,
          h |-> [h EXCEPT ![p].computing = TRUE]]

\* Error.Type after computeErrorType returned result: the result is cached,
\* and the deferred function clears the in-progress mark.
TypeExit(h, p, result) ==
    [h EXCEPT ![p].computedErrType = result, ![p].computing = FALSE]

\* computeErrorType, first part: the explicit type, else the instance
\* inferer is to be invoked ("waitinst"), else the global one is tried.
ComputeStart(fr, e) ==
    IF e.errType # TypeUnknown
    THEN [fr EXCEPT !.pc = "finish", !.rv = e.errType]
    ELSE IF e.typeInferer # NoInf
    THEN [fr EXCEPT !.pc = "waitinst"]
    ELSE [fr EXCEPT !.pc = "global"]

\* (mutant) an instance inferer's TypeUnknown ends the computation.
AfterInstanceNoFallThrough(fr, typ) ==
    [fr EXCEPT !.pc = "finish", !.rv = typ, !.ir = typ]

\* computeErrorType, after the instance inferer returned typ.
AfterInstance(fr, typ) ==
    IF typ # TypeUnknown
    THEN [fr EXCEPT !.pc = "finish", !.rv = typ, !.ir = typ]
    ELSE [fr EXCEPT !.pc = "global", !.ir = typ]

\* tryGlobalInferer, after the copy of globalInferer was taken.
GlobalStart(fr, inferer) ==
    IF inferer # NoInf
    THEN [fr EXCEPT !.pc = "waitglob", !.gi = inferer]
    ELSE [fr EXCEPT !.pc = "finish", !.rv = TypeUnknown]

\* (mutant) tryGlobalInferer dropping the global inferer's result.
AfterGlobalDropsResult(fr, typ) ==
    [fr EXCEPT !.pc = "finish", !.rv = TypeUnknown, !.gr = typ]

\* tryGlobalInferer, after the global inferer returned typ.
AfterGlobal(fr, typ) ==
    IF typ # TypeUnknown
    THEN [fr EXCEPT !.pc = "finish", !.rv = typ, !.gr = typ]
    ELSE [fr EXCEPT !.pc = "finish", !.rv = TypeUnknown, !.gr = typ]

\* (mutant) the loop of ChainInferers going on after a known category.
ChainLoopKeepsGoing(fr) ==
    IF fr.k = Len(fr.inf.t) THEN [done |-> TRUE, v |-> fr.rv]
    ELSE [done |-> FALSE, v |-> TypeUnknown]

\* The loop of ChainInferers when fr.k members were invoked and the last
\* of them returned fr.rv: return that result, return TypeUnknown after the
\* last member, or invoke the next member.
ChainLoop(fr) ==
    IF fr.k > 0 /\ fr.rv # TypeUnknown THEN [done |-> TRUE, v |-> fr.rv]
    ELSE IF fr.k = Len(fr.inf.t) THEN [done |-> TRUE, v |-> TypeUnknown]
    ELSE [done |-> FALSE, v |-> TypeUnknown]

\* The caller's frame once its callee returned v.  A ChainInferers frame
\* keeps in ir the results of the members invoked so far.
Resume(fr, v) ==
    CASE fr.f = "Type" /\ fr.pc = "waitinst" -> AfterInstance(fr, v)
      [] fr.f = "Type" /\ fr.pc = "waitglob" -> AfterGlobal(fr, v)
      [] fr.f = "Inf" /\ fr.pc = "waitmember" ->
            [fr EXCEPT !.pc = "loop", !.rv = v, !.ir = Append(@, v)]
      [] OTHER -> [fr EXCEPT !.pc = "ret", !.rv = v]

\* The running frame returns v to its caller.
Return(stack, v) ==
    IF Len(stack) = 1 THEN <<>>
    ELSE SetTop(Pop(stack), Resume(Top(Pop(stack)), v))

\* The running frame calls p.Type().
CallTypeFrom(stack, h, p) ==
    LET entry == TypeEntry(h, p)
    IN  IF entry.path = "run"
        THEN [h |-> entry.h,
              cs |-> Append(SetTop(stack, [Top(stack) EXCEPT !.pc = "waitcall"]),
                            TypeFrame(p))]
        ELSE [h |-> h,
              cs |-> SetTop(stack, [Top(stack) EXCEPT !.pc = "ret", !.rv = entry.v])]

(***************************************************************************)
(* StackTraceInferer.                                                      *)
(***************************************************************************)
extractErrorFrameAlways(e) == TRUE

\* extractErrorFrame's second result: the most recent snapshot has a frame.
extractErrorFrame(e) == Len(e.stacks) > 0 /\ Len(e.stacks[1].Frames) > 0

TypeDatabase == "errorsx.database"

\* reflect's name of a foreign error's type.
ReflectName(e) == IF e.kind = "join" THEN "errorsx.joinError" ELSE "errors.errorString"

\* The user's matcher: inf.t for a database cause, TypeUnknown otherwise.
Matcher(inf, causeType) ==
    IF causeType = TypeDatabase THEN inf.t ELSE TypeUnknown

\* What a self inferer returns after its inner e.Type() gave rv.
SelfResult(inf, rv) == IF rv = TypeUnknown THEN inf.t ELSE rv

(***************************************************************************)
(* State.                                                                  *)
(*   heap           the error values allocated so far                      *)
(*   globalInferer  the package variable globalInferer                     *)
(*   cs             the call stack of each thread (empty: in user code)    *)
(*   calls          calls[p]: how often p's instance inferer was invoked   *)
(*                  on p (the counter of a counting inferer)               *)
(*   last           the last top-level call: its receiver, arguments (arg a *)
(*                  pointer, data a string) and results (ret a pointer,    *)
(*                  typ a category, ok a boolean, args the arguments of a  *)
(*                  variadic call); c0 is `calls` when a Type() began      *)
(*   filter         the running or finished FilterByType call              *)
(*   infererMutex   the lock of globalInferer                              *)
(*   stored         history: the values written to globalInferer under the *)
(*                  lock                                                   *)
(*   firstType      history: firstType[p] is what the first Type() call of *)
(*                  user code on p returned                                *)
(***************************************************************************)
NoLast ==
    [op |-> "none", recv |-> Nil, ret |-> Nil, arg |-> Nil, data |-> "",
     typ |-> "", path |-> "", ir |-> "none", gr |-> "none", gi |-> NoInf,
     c0 |-> <<>>, ok |-> FALSE, args |-> <<>>]

\* The activation of FilterByType: its arguments, the closure's variables
\* seen and result, and whether it has not been called, runs or returned.
NoFilter ==
    [state |-> "idle", err |-> Nil, typ |-> "", seen |-> {}, result |-> <<>>]

\* sync.RWMutex: the thread holding the exclusive lock ("none" when free)
\* and the threads holding the shared lock.
Unlocked == [writer |-> "none", readers |-> {}]

Init ==
    /\ heap = <<>>
    /\ globalInferer = NoInf
    /\ cs = [t \in Threads |-> <<>>]
    /\ calls = <<>>
    /\ last = NoLast
    /\ filter = NoFilter
    /\ infererMutex = Unlocked
    /\ stored = {}
    /\ firstType = <<>>

Ptrs == 1..Len(heap)

Natives == {p \in Ptrs : heap[p].kind = "native"}

Idle(t) == cs[t] = <<>>

\* No Type() call on the value has returned to user code yet.
NoType == "none"

ExtendFirst(h) ==
    [i \in 1..Len(h) |-> IF i \in DOMAIN firstType THEN firstType[i] ELSE NoType]

\* A Type() call on p returned v to user code.
Returned(p, v) ==
    IF firstType[p] = NoType THEN [firstType EXCEPT ![p] = v] ELSE firstType

ExtendCalls(h) == [i \in 1..Len(h) |-> IF i \in DOMAIN calls THEN calls[i] ELSE 0]

\* A builder call returned r = [h, ret] to user code.
Built(op, p, a, d, r, max) ==
    /\ Len(r.h) <= max
    /\ heap' = r.h
    /\ calls' = ExtendCalls(r.h)
    /\ firstType' = ExtendFirst(r.h)
    /\ last' = [NoLast EXCEPT !.op = op, !.recv = p, !.arg = a, !.data = d,
                              !.ret = r.ret]
    /\ UNCHANGED <<globalInferer, cs, filter, infererMutex, stored>>

(***************************************************************************)
(* Inputs of the type-resolution specification.                            *)
(***************************************************************************)
ExplicitTypes == {TypeUnknown, TypeDatabase}

InstInferers ==
    {ConstInf(TypeUnknown), ConstInf(TypeDatabase), ConstInf(EmptyType),
     SelfInf(TypeDatabase)}

TypeGlobal == "errorsx.global"

GlobalInferers ==
    {ConstInf(TypeUnknown), ConstInf(TypeGlobal), SelfInf(TypeGlobal),
     ConstInf(EmptyType)}

TypeOptions ==
    {[o |-> "WithType", a |-> t] : t \in ExplicitTypes}
    \cup {[o |-> "WithTypeInferer", a |-> f] : f \in InstInferers \cup {NoInf}}

SeqsUpTo(S, n) == UNION {[1..k -> S] : k \in 0..n}

TypeNewValues == {New("a", opts) : opts \in SeqsUpTo(TypeOptions, MaxOpts)}

(***************************************************************************)
(* Actions: construction and builders (user code of thread t1).            *)
(***************************************************************************)
\* values: the results of New(id, opts...) for the ids and option lists of
\* the specification.
DoNew(values, max) ==
    \E e \in values :
        /\ Idle("t1")
        /\ Built("New", Nil, Nil, "", Alloc(heap, e), max)

DoWithType(types, max) ==
    \E p \in Natives, typ \in types :
        /\ Idle("t1")
        /\ Built("WithType", p, Nil, typ, WithType(heap, p, typ), max)

DoWithTypeInferer(infs, max) ==
    \E p \in Natives, inferer \in infs :
        /\ Idle("t1")
        /\ Built("WithTypeInferer", p, Nil, "", WithTypeInferer(heap, p, inferer), max)

DoWithReason(reasons, max) ==
    \E p \in Natives, reason \in reasons :
        /\ Idle("t1")
        /\ Built("WithReason", p, Nil, reason, WithReason(heap, p, reason), max)

DoWithMessage(datas, max) ==
    \E p \in Natives, data \in datas :
        /\ Idle("t1")
        /\ Built("WithMessage", p, Nil, data, WithMessage(heap, p, data), max)

DoWithHTTPStatus(statuses, max) ==
    \E p \in Natives, status \in statuses :
        /\ Idle("t1")
        /\ Built("WithHTTPStatus", p, status, "", WithHTTPStatus(heap, p, status), max)

DoWithNotFound(max) ==
    \E p \in Natives :
        /\ Idle("t1")
        /\ Built("WithNotFound", p, Nil, "", WithNotFound(heap, p), max)

DoWithRetryable(max) ==
    \E p \in Natives :
        /\ Idle("t1")
        /\ Built("WithRetryable", p, Nil, "", WithRetryable(heap, p), max)

DoWithStackTraceCleaner(cleaners, max) ==
    \E p \in Natives, cleaner \in cleaners :
        /\ Idle("t1")
        /\ Built("WithStackTraceCleaner", p, Nil, cleaner,
                 WithStackTraceCleaner(heap, p, cleaner), max)

\* user: the user frames of the calling goroutine, innermost first.
DoWithStack(skips, users, max) ==
    \E p \in Natives, skip \in skips, user \in users :
        /\ Idle("t1")
        /\ Built("WithStack", p, skip, "", WithStack(heap, p, skip, user), max)

DoWithCallerStack(users, max) ==
    \E p \in Natives, user \in users :
        /\ Idle("t1")
        /\ Built("WithCallerStack", p, Nil, "", WithCallerStack(heap, p, user), max)

DoWithCause(causes, users, max) ==
    \E p \in Natives, cause \in causes, user \in users :
        /\ Idle("t1")
        /\ Built("WithCause", p, cause, "", WithCause(heap, p, cause, user), max)

DoRootStackTrace(errs) ==
    \E err \in errs :
        /\ Idle("t1")
        /\ last' = [NoLast EXCEPT !.op = "RootStackTrace", !.recv = err,
                                  !.data = RootStackTrace(heap, err)]
        /\ UNCHANGED <<heap, globalInferer, cs, calls, filter, infererMutex, stored, firstType>>

DoReplaceMessage(errs, datas, users, max) ==
    \E err \in errs, data \in datas, user \in users :
        /\ Idle("t1")
        /\ Built("ReplaceMessage", Nil, err, data,
                 ReplaceMessage(heap, err, data, user), max)

\* A query of user code returned; the heap is as it was.
Queried(op, p, a, r, ok) ==
    /\ Idle("t1")
    /\ last' = [NoLast EXCEPT !.op = op, !.recv = p, !.arg = a, !.ret = r, !.ok = ok]
    /\ UNCHANGED <<heap, globalInferer, cs, calls, filter, infererMutex, stored, firstType>>

\* a.Is(b) on native values.
DoIs ==
    \E a \in Natives, b \in Natives :
        Queried("Is", a, b, Nil, ErrorIs(heap, a, b))

DoRootCause(errs) ==
    \E err \in errs : Queried("RootCause", err, Nil, RootCause(heap, err), FALSE)

DoIsNotFound(errs) ==
    \E err \in errs : Queried("IsNotFound", err, Nil, Nil, IsNotFound(heap, err))

DoIsRetryable(errs) ==
    \E err \in errs : Queried("IsRetryable", err, Nil, Nil, IsRetryable(heap, err))

\* errors.New of the standard library, in user code.
DoStdNew(max) ==
    /\ Idle("t1")
    /\ Built("errors.New", Nil, Nil, "", StdNew(heap), max)

\* fmt.Errorf("wrap: %w", inner), in user code.
DoStdWrap(inners, max) ==
    \E inner \in inners :
        /\ Idle("t1")
        /\ Built("fmt.Errorf", Nil, inner, "", StdWrap(heap, inner), max)

DoJoin(lists, max) ==
    \E errs \in lists :
        LET r == Join(heap, errs)
        IN  /\ Idle("t1")
            /\ Len(r.h) <= max
            /\ heap' = r.h
            /\ calls' = ExtendCalls(r.h)
            /\ firstType' = ExtendFirst(r.h)
            /\ last' = [NoLast EXCEPT !.op = "Join", !.ret = r.ret, !.args = errs]
            /\ UNCHANGED <<globalInferer, cs, filter, infererMutex, stored>>

(***************************************************************************)
(* Actions: the global inferer.                                            *)
(***************************************************************************)
SetGlobalTypeInferer(infs) ==
    \E inferer \in infs :
        /\ Idle("t1")
        /\ globalInferer' = inferer
        /\ last' = [NoLast EXCEPT !.op = "SetGlobalTypeInferer"]
        /\ UNCHANGED <<heap, cs, calls, filter, infererMutex, stored, firstType>>

ClearGlobalTypeInferer ==
    /\ Idle("t1")
    /\ globalInferer' = NoInf
    /\ last' = [NoLast EXCEPT !.op = "ClearGlobalTypeInferer"]
    /\ UNCHANGED <<heap, cs, calls, filter, infererMutex, stored, firstType>>

(***************************************************************************)
(* Actions: Type().                                                        *)
(***************************************************************************)
\* User code calls p.Type().
CallType(t) ==
    \E p \in Natives :
        /\ Idle(t)
        /\ \A q \in Ptrs : calls[q] < MaxCalls
        /\ LET entry == TypeEntry(heap, p)
           IN  /\ heap' = entry.h
               /\ IF entry.path = "run"
                  THEN /\ cs' = [cs EXCEPT ![t] = <<TypeFrame(p)>>]
                       /\ last' = [NoLast EXCEPT !.op = "Type.begin", !.recv = p,
                                                 !.c0 = calls]
                  ELSE /\ cs' = cs
                       /\ last' = [NoLast EXCEPT !.op = "Type", !.recv = p,
                                                 !.typ = entry.v, !.path = entry.path,
                                                 !.c0 = calls]
               /\ firstType' = IF entry.path = "run" THEN firstType
                                ELSE Returned(p, entry.v)
        /\ UNCHANGED <<globalInferer, calls, filter, infererMutex, stored>>

Running(t, f, pc) ==
    /\ cs[t] # <<>>
    /\ Top(cs[t]).f = f
    /\ Top(cs[t]).pc = pc

\* computeErrorType up to the invocation of the instance inferer.
Compute(t) ==
    /\ Running(t, "Type", "compute")
    /\ LET fr == Top(cs[t])
           nx == ComputeStart(fr, heap[fr.obj])
       IN  IF nx.pc = "waitinst"
           THEN /\ cs' = [cs EXCEPT ![t] =
                            Append(SetTop(@, nx), InfFrame(fr.obj, heap[fr.obj].typeInferer))]
                /\ calls' = [calls EXCEPT ![fr.obj] = @ + 1]
           ELSE /\ cs' = [cs EXCEPT ![t] = SetTop(@, nx)]
                /\ calls' = calls
    /\ UNCHANGED <<heap, globalInferer, last, filter, infererMutex, stored, firstType>>

\* tryGlobalInferer up to the invocation of the global inferer.
TryGlobal(t) ==
    /\ Running(t, "Type", "global")
    /\ LET fr == Top(cs[t])
           nx == GlobalStart(fr, globalInferer)
       IN  IF nx.pc = "waitglob"
           THEN cs' = [cs EXCEPT ![t] = Append(SetTop(@, nx), InfFrame(fr.obj, globalInferer))]
           ELSE cs' = [cs EXCEPT ![t] = SetTop(@, nx)]
    /\ UNCHANGED <<heap, globalInferer, calls, last, filter, infererMutex, stored, firstType>>

\* Error.Type caches the result, clears the mark and returns.
Finish(t) ==
    /\ Running(t, "Type", "finish")
    /\ LET fr == Top(cs[t])
       IN  /\ heap' = TypeExit(heap, fr.obj, fr.rv)
           /\ cs' = [cs EXCEPT ![t] = Return(@, fr.rv)]
           /\ last' = IF Len(cs[t]) = 1
                      THEN [NoLast EXCEPT !.op = "Type", !.recv = fr.obj,
                                          !.typ = fr.rv, !.path = "computed",
                                          !.ir = fr.ir, !.gr = fr.gr, !.gi = fr.gi,
                                          !.c0 = last.c0]
                      ELSE last
           /\ firstType' = IF Len(cs[t]) = 1 THEN Returned(fr.obj, fr.rv)
                            ELSE firstType
    /\ UNCHANGED <<globalInferer, calls, filter, infererMutex, stored>>

\* An inferer starts: a const inferer returns at once, a self inferer calls
\* e.Type(), a StackTraceInferer looks at the snapshot and the cause and,
\* with a snapshot, goes on to invoke its matcher ("match", rv the cause's
\* type name), the inferer of ChainInferers enters its loop.
RunInferer(t) ==
    /\ Running(t, "Inf", "run")
    /\ Top(cs[t]).inf.k \notin {"clone", "setter", "clearer"}
    /\ LET fr == Top(cs[t])
           e == heap[fr.obj]
           ret(v) == /\ cs' = [cs EXCEPT ![t] = Return(@, v)]
                     /\ heap' = heap
           call(p) == LET r == CallTypeFrom(cs[t], heap, p)
                      IN  /\ cs' = [cs EXCEPT ![t] = r.cs]
                          /\ heap' = r.h
           match(c) == /\ cs' = [cs EXCEPT ![t] =
                                   SetTop(@, [fr EXCEPT !.pc = "match", !.rv = c])]
                       /\ heap' = heap
       IN  CASE fr.inf.k = "const" -> ret(fr.inf.t)
             [] fr.inf.k = "self" -> call(fr.obj)
             [] fr.inf.k = "chain" ->
                  /\ cs' = [cs EXCEPT ![t] =
                              SetTop(@, [fr EXCEPT !.pc = "loop", !.ir = <<>>])]
                  /\ heap' = heap
             [] fr.inf.k = "stack" ->
                  IF ~extractErrorFrame(e) THEN ret(TypeUnknown)
                  ELSE IF e.cause = Nil THEN match("")
                  ELSE IF IsNative(heap, e.cause) THEN call(e.cause)
                  ELSE match(ReflectName(heap[e.cause]))
    /\ UNCHANGED <<globalInferer, calls, last, filter, infererMutex, stored, firstType>>

\* The call an inferer made came back: a self inferer returns, as does one
\* that called SetGlobalTypeInferer or ClearGlobalTypeInferer; a
\* StackTraceInferer goes on to invoke its matcher.
InfererReturn(t) ==
    /\ Running(t, "Inf", "ret")
    /\ LET fr == Top(cs[t])
       IN  IF fr.inf.k = "self"
           THEN cs' = [cs EXCEPT ![t] = Return(@, SelfResult(fr.inf, fr.rv))]
           ELSE IF fr.inf.k \in {"setter", "clearer"}
           THEN cs' = [cs EXCEPT ![t] = Return(@, fr.inf.t)]
           ELSE cs' = [cs EXCEPT ![t] = SetTop(@, [fr EXCEPT !.pc = "match"])]
    /\ UNCHANGED <<heap, globalInferer, calls, last, filter, infererMutex, stored, firstType>>

\* The matcher of a StackTraceInferer is invoked and the inferer returns
\* its result.
MatcherReturn(t) ==
    /\ Running(t, "Inf", "match")
    /\ LET fr == Top(cs[t])
       IN  cs' = [cs EXCEPT ![t] = Return(@, Matcher(fr.inf, fr.rv))]
    /\ UNCHANGED <<heap, globalInferer, calls, last, filter, infererMutex, stored, firstType>>

\* An inferer that calls e.WithReason("seen") on its argument, keeps the
\* copy, and returns its category.  The copy is made while Type() runs on e.
InfererClones(t) ==
    /\ Running(t, "Inf", "run")
    /\ Top(cs[t]).inf.k = "clone"
    /\ LET fr == Top(cs[t])
           r == WithReason(heap, fr.obj, "seen")
       IN  /\ heap' = r.h
           /\ calls' = ExtendCalls(r.h)
           /\ firstType' = ExtendFirst(r.h)
           /\ cs' = [cs EXCEPT ![t] = Return(@, fr.inf.t)]
    /\ UNCHANGED <<globalInferer, last, filter, infererMutex, stored>>

\* One round of the loop of ChainInferers: it returns, or it invokes the
\* next member on the same error.
ChainStep(t) ==
    /\ Running(t, "Inf", "loop")
    /\ LET fr == Top(cs[t])
           r == ChainLoop(fr)
       IN  IF r.done
           THEN cs' = [cs EXCEPT ![t] = Return(@, r.v)]
           ELSE cs' = [cs EXCEPT ![t] =
                         Append(SetTop(@, [fr EXCEPT !.pc = "waitmember", !.k = @ + 1]),
                                InfFrame(fr.obj, fr.inf.t[fr.k + 1]))]
    /\ UNCHANGED <<heap, globalInferer, calls, last, filter, infererMutex, stored, firstType>>

(***************************************************************************)
(* Actions: FilterByType, one action per stretch of the closure walk       *)
(* between two calls.                                                      *)
(***************************************************************************)
CallFilterByType(t, errs, types) ==
    \E err \in errs, typ \in types :
        /\ Idle(t)
        /\ filter.state = "idle"
        /\ filter' = [NoFilter EXCEPT !.state = "running", !.err = err, !.typ = typ]
        /\ cs' = [cs EXCEPT ![t] = <<WalkFrame(err)>>]
        /\ last' = [NoLast EXCEPT !.op = "FilterByType.begin", !.recv = err,
                                  !.typ = typ]
        /\ UNCHANGED <<heap, globalInferer, calls, infererMutex, stored, firstType>>

\* The running walk returns; the outermost one ends FilterByType.
WalkReturns(t) ==
    /\ cs' = [cs EXCEPT ![t] = Pop(@)]
    /\ IF Len(cs[t]) = 1
       THEN /\ filter' = [filter EXCEPT !.state = "returned"]
            /\ last' = [NoLast EXCEPT !.op = "FilterByType", !.recv = filter.err,
                                      !.typ = filter.typ]
       ELSE UNCHANGED <<filter, last, infererMutex, stored, firstType>>

\* walk up to the call of e.Type(): the nil check, errors.As and the seen map.
WalkStart(t) ==
    /\ Running(t, "Walk", "start")
    /\ LET fr == Top(cs[t])
           e == ErrorsAs(heap, fr.obj)
       IN  IF fr.obj = Nil
           THEN WalkReturns(t) /\ heap' = heap
           ELSE IF e = Nil
           THEN /\ cs' = [cs EXCEPT ![t] = SetTop(@, [fr EXCEPT !.pc = "unwrap"])]
                /\ UNCHANGED <<heap, filter, last, infererMutex, stored, firstType>>
           ELSE IF e \in filter.seen
           THEN WalkReturns(t) /\ heap' = heap
           ELSE LET r == CallTypeFrom(SetTop(cs[t], [fr EXCEPT !.e = e]), heap, e)
                IN  /\ filter' = [filter EXCEPT !.seen = @ \cup {e}]
                    /\ cs' = [cs EXCEPT ![t] = r.cs]
                    /\ heap' = r.h
                    /\ last' = last
    /\ UNCHANGED <<globalInferer, calls, infererMutex, stored, firstType>>

\* walk after e.Type() returned: the match is appended to result.
WalkTyped(t) ==
    /\ Running(t, "Walk", "ret")
    /\ LET fr == Top(cs[t])
       IN  /\ filter' = IF fr.rv = filter.typ
                        THEN [filter EXCEPT !.result = Append(@, fr.e)]
                        ELSE filter
           /\ cs' = [cs EXCEPT ![t] = SetTop(@, [fr EXCEPT !.pc = "unwrap"])]
    /\ UNCHANGED <<heap, globalInferer, calls, last, infererMutex, stored, firstType>>

\* walk at the two unwrap shapes: a join starts its loop, a single Unwrap
\* result is walked, anything else returns.
WalkUnwrap(t) ==
    /\ Running(t, "Walk", "unwrap")
    /\ LET fr == Top(cs[t])
           ue == Unwrap(heap, fr.obj)
       IN  IF heap[fr.obj].kind = "join"
           THEN /\ cs' = [cs EXCEPT ![t] = SetTop(@, [fr EXCEPT !.pc = "range", !.k = 1])]
                /\ UNCHANGED <<filter, last, infererMutex, stored, firstType>>
           ELSE IF ue # Nil
           THEN /\ cs' = [cs EXCEPT ![t] =
                            Append(SetTop(@, [fr EXCEPT !.pc = "return"]), WalkFrame(ue))]
                /\ UNCHANGED <<filter, last, infererMutex, stored, firstType>>
           ELSE WalkReturns(t)
    /\ UNCHANGED <<heap, globalInferer, calls, infererMutex, stored, firstType>>

\* The loop over the members of a join: the next member is walked, and the
\* walk returns after the last one.
WalkRange(t) ==
    /\ Running(t, "Walk", "range")
    /\ LET fr == Top(cs[t])
           errs == heap[fr.obj].errs
       IN  IF fr.k > Len(errs) THEN WalkReturns(t)
           ELSE /\ cs' = [cs EXCEPT ![t] =
                            IF errs[fr.k] # Nil
                            THEN Append(SetTop(@, [fr EXCEPT !.k = @ + 1]),
                                        WalkFrame(errs[fr.k]))
                            ELSE SetTop(@, [fr EXCEPT !.k = @ + 1])]
                /\ UNCHANGED <<filter, last, infererMutex, stored, firstType>>
    /\ UNCHANGED <<heap, globalInferer, calls, infererMutex, stored, firstType>>

\* walk returns after the walk of its single Unwrap result.
WalkDone(t) ==
    /\ Running(t, "Walk", "return")
    /\ WalkReturns(t)
    /\ UNCHANGED <<heap, globalInferer, calls, infererMutex, stored, firstType>>

WalkSteps(t) ==
    \/ WalkStart(t)
    \/ WalkTyped(t)
    \/ WalkUnwrap(t)
    \/ WalkRange(t)
    \/ WalkDone(t)

TypeSteps(t) ==
    \/ Compute(t)
    \/ TryGlobal(t)
    \/ Finish(t)
    \/ RunInferer(t)
    \/ InfererReturn(t)

(***************************************************************************)
(* Actions: the global inferer and infererMutex, one action per lock       *)
(* operation and per access of the variable, for any thread.               *)
(***************************************************************************)
SetFrame(inferer) ==
    [f |-> "SetGlobalTypeInferer", obj |-> Nil, pc |-> "lock", inf |-> inferer,
     rv |-> TypeUnknown, ir |-> "none", gr |-> "none", gi |-> NoInf,
     e |-> Nil, k |-> 0]

ClearFrame ==
    [f |-> "ClearGlobalTypeInferer", obj |-> Nil, pc |-> "lock", inf |-> NoInf,
     rv |-> TypeUnknown, ir |-> "none", gr |-> "none", gi |-> NoInf,
     e |-> Nil, k |-> 0]

\* (mutant) Lock that does not wait for the readers.
CanLockIgnoresReaders(mu) == mu.writer = "none"

\* RWMutex.Lock returns once no thread holds the lock in either mode.
CanLock(mu) == mu.writer = "none" /\ mu.readers = {}

\* RWMutex.RLock returns once no thread holds the exclusive lock.
CanRLock(mu) == mu.writer = "none"

\* What an access of globalInferer that overlaps a write can yield: a data
\* race, so any value, a torn one included.
TornInf == [k |-> "torn", t |-> TypeUnknown]

\* The threads between Lock and Unlock in SetGlobalTypeInferer and
\* ClearGlobalTypeInferer.
Writing == {u \in Threads : cs[u] # <<>> /\ Top(cs[u]).pc \in {"write", "unlock"}}

\* The threads between RLock and RUnlock in tryGlobalInferer.
Reading == {u \in Threads : cs[u] # <<>> /\ Top(cs[u]).pc \in {"read", "runlock"}}

CallSetGlobalTypeInferer(t, infs) ==
    \E inferer \in infs :
        /\ Idle(t)
        /\ cs' = [cs EXCEPT ![t] = <<SetFrame(inferer)>>]
        /\ UNCHANGED <<heap, globalInferer, calls, last, filter, infererMutex, stored, firstType>>

CallClearGlobalTypeInferer(t) ==
    /\ Idle(t)
    /\ cs' = [cs EXCEPT ![t] = <<ClearFrame>>]
    /\ UNCHANGED <<heap, globalInferer, calls, last, filter, infererMutex, stored, firstType>>

InSetOrClear(t, pc) ==
    /\ cs[t] # <<>>
    /\ Top(cs[t]).f \in {"SetGlobalTypeInferer", "ClearGlobalTypeInferer"}
    /\ Top(cs[t]).pc = pc

\* infererMutex.Lock()
GlobalLock(t) ==
    /\ InSetOrClear(t, "lock")
    /\ CanLock(infererMutex)
    /\ infererMutex' = [infererMutex EXCEPT !.writer = t]
    /\ cs' = [cs EXCEPT ![t] = SetTop(@, [Top(@) EXCEPT !.pc = "write"])]
    /\ UNCHANGED <<heap, globalInferer, calls, last, filter, stored, firstType>>

\* globalInferer = inferer (nil for Clear)
GlobalWrite(t) ==
    /\ InSetOrClear(t, "write")
    /\ globalInferer' = Top(cs[t]).inf
    /\ stored' = stored \cup {Top(cs[t]).inf}
    /\ cs' = [cs EXCEPT ![t] = SetTop(@, [Top(@) EXCEPT !.pc = "unlock"])]
    /\ UNCHANGED <<heap, calls, last, filter, infererMutex, firstType>>

\* The deferred infererMutex.Unlock(), and the return: to user code, or to
\* the inferer that made the call.
GlobalUnlock(t) ==
    /\ InSetOrClear(t, "unlock")
    /\ infererMutex' = [infererMutex EXCEPT !.writer = "none"]
    /\ cs' = [cs EXCEPT ![t] = Return(@, TypeUnknown)]
    /\ last' = IF Len(cs[t]) = 1
               THEN [NoLast EXCEPT !.op = Top(cs[t]).f, !.gi = Top(cs[t]).inf]
               ELSE last
    /\ UNCHANGED <<heap, globalInferer, calls, filter, stored, firstType>>

\* An inferer calls SetGlobalTypeInferer or ClearGlobalTypeInferer.
InfererCallsRegistry(t) ==
    /\ Running(t, "Inf", "run")
    /\ Top(cs[t]).inf.k \in {"setter", "clearer"}
    /\ LET fr == Top(cs[t])
           callee == IF fr.inf.k = "setter" THEN SetFrame(ConstInf(fr.inf.t))
                     ELSE ClearFrame
       IN  cs' = [cs EXCEPT ![t] =
                     Append(SetTop(@, [fr EXCEPT !.pc = "waitcall"]), callee)]
    /\ UNCHANGED <<heap, globalInferer, calls, last, filter, infererMutex, stored, firstType>>

\* (mutant) RUnlock deferred to the return of tryGlobalInferer.
RUnlockDeferred(mu, t) == mu

\* infererMutex.RUnlock() by thread t.
RUnlock(mu, t) == [mu EXCEPT !.readers = @ \ {t}]

\* tryGlobalInferer: infererMutex.RLock()
TryGlobalRLock(t) ==
    /\ Running(t, "Type", "global")
    /\ CanRLock(infererMutex)
    /\ infererMutex' = [infererMutex EXCEPT !.readers = @ \cup {t}]
    /\ cs' = [cs EXCEPT ![t] = SetTop(@, [Top(@) EXCEPT !.pc = "read"])]
    /\ UNCHANGED <<heap, globalInferer, calls, last, filter, stored, firstType>>

\* tryGlobalInferer: inferer := globalInferer
TryGlobalRead(t) ==
    /\ Running(t, "Type", "read")
    /\ \E v \in IF Writing = {} THEN {globalInferer}
                ELSE {globalInferer, TornInf} \cup stored :
          cs' = [cs EXCEPT ![t] = SetTop(@, [Top(@) EXCEPT !.pc = "runlock", !.gi = v])]
    /\ UNCHANGED <<heap, globalInferer, calls, last, filter, infererMutex, stored, firstType>>

\* tryGlobalInferer: infererMutex.RUnlock(), then the inferer read is
\* invoked if it is not nil.
TryGlobalRUnlock(t) ==
    /\ Running(t, "Type", "runlock")
    /\ infererMutex' = RUnlock(infererMutex, t)
    /\ LET fr == Top(cs[t])
           nx == GlobalStart(fr, fr.gi)
       IN  IF nx.pc = "waitglob"
           THEN cs' = [cs EXCEPT ![t] = Append(SetTop(@, nx), InfFrame(fr.obj, fr.gi))]
           ELSE cs' = [cs EXCEPT ![t] = SetTop(@, nx)]
    /\ UNCHANGED <<heap, globalInferer, calls, last, filter, stored, firstType>>

\* The steps of Type() with tryGlobalInferer at the grain of the lock.
LockedTypeSteps(t) ==
    \/ Compute(t)
    \/ TryGlobalRLock(t)
    \/ TryGlobalRead(t)
    \/ TryGlobalRUnlock(t)
    \/ Finish(t)
    \/ RunInferer(t)
    \/ InfererReturn(t)

(***************************************************************************)
(* Spec: type resolution of single values.                                 *)
(***************************************************************************)
Next ==
    \/ DoNew(TypeNewValues, MaxObjs)
    \/ DoWithType(ExplicitTypes, MaxObjs)
    \/ DoWithTypeInferer(InstInferers \cup {NoInf}, MaxObjs)
    \/ SetGlobalTypeInferer(GlobalInferers)
    \/ ClearGlobalTypeInferer
    \/ CallType("t1")
    \/ TypeSteps("t1")

Spec == Init /\ [][Next]_vars

(***************************************************************************)
(* Claims about type resolution (checked under Spec).                      *)
(***************************************************************************)
\* The frames of all call stacks, as <<thread, depth>>.
Live == UNION {{<<t, k>> : k \in DOMAIN cs[t]} : t \in Threads}

FrameAt(tk) == cs[tk[1]][tk[2]]

TypeFinishing == {tk \in Live : FrameAt(tk).f = "Type" /\ FrameAt(tk).pc = "finish"}

\* What the priority chain gives for e when the instance inferer returned
\* ir and the global inferer gi returned gr.
Priority(e, ir, gi, gr) ==
    IF e.errType # TypeUnknown THEN e.errType
    ELSE IF e.typeInferer # NoInf /\ ir # TypeUnknown THEN ir
    ELSE IF gi # NoInf /\ gr # TypeUnknown THEN gr
    ELSE TypeUnknown

\* C1: a Type() call on a value that was not resolved yet returns the
\* explicit type if it is not TypeUnknown, and then no inferer was invoked;
\* otherwise the instance inferer's result if there is an inferer and it
\* returned non-unknown, and then the global inferer was not invoked;
\* otherwise the registered global inferer's result if non-unknown;
\* otherwise TypeUnknown.
C1_TypePriority ==
    \A tk \in TypeFinishing :
        LET fr == FrameAt(tk)
            e == heap[fr.obj]
            explicit == e.errType # TypeUnknown
            instance == ~explicit /\ e.typeInferer # NoInf
            global == ~explicit /\ (instance => fr.ir = TypeUnknown)
        IN  /\ fr.rv = Priority(e, fr.ir, fr.gi, fr.gr)
            /\ (fr.ir # "none") = instance
            /\ (fr.gr # "none") = (global /\ globalInferer # NoInf)
            /\ global => fr.gi = globalInferer
            /\ (instance /\ e.typeInferer.k = "const") => fr.ir = e.typeInferer.t
            /\ (fr.gr # "none" /\ fr.gi.k = "const") => fr.gr = fr.gi.t

\* C1 witness: an instance inferer returned TypeUnknown and the call fell
\* through to the global inferer, whose category is being returned.
C1_Witness ==
    \E tk \in TypeFinishing :
        /\ FrameAt(tk).ir = TypeUnknown
        /\ FrameAt(tk).gr = TypeGlobal
        /\ FrameAt(tk).rv = TypeGlobal

\* C2: whatever the instance inferer of a value returns, repeated Type()
\* calls on that value leave its invocation counter at 1 (never above 1).
C2_InfererCalledOnce == \A p \in Natives : calls[p] <= 1

\* Every value whose inferer ran twice has a computation that gave the
\* empty category (the cache holds "" afterwards, which reads as no cache).
C2_OnlyEmptyRepeats ==
    \A p \in Natives :
        calls[p] > 1 => heap[p].typeInferer = ConstInf(EmptyType)

\* C3: a Type() call re-entered from an inferer on the value being resolved
\* returns at once with the explicit type if set and TypeUnknown otherwise,
\* starts no second computation on that value (no inferer runs again), and
\* the outer call completes with its own result cached and the in-progress
\* mark cleared.
C3_RecursionShortCircuit ==
    /\ \A tk \in Live :
           LET fr == FrameAt(tk)
           IN  (fr.f = "Inf" /\ fr.inf.k = "self") =>
                  /\ fr.pc \in {"run", "ret"}
                  /\ fr.pc = "ret" => fr.rv = handleRecursion(heap[fr.obj])
                  /\ calls[fr.obj] <= 1 \/ heap[fr.obj].typeInferer.k # "self"
    /\ \A tk \in Live, tj \in Live :
           (tk # tj /\ FrameAt(tk).f = "Type" /\ FrameAt(tj).f = "Type")
               => FrameAt(tk).obj # FrameAt(tj).obj
    /\ (last.op = "Type" /\ last.path = "computed") =>
           /\ heap[last.recv].computedErrType = last.typ
           /\ ~heap[last.recv].computing

\* C3 witness: a call on a value whose inferer re-enters Type() completed.
C3_Witness ==
    /\ last.op = "Type"
    /\ last.path = "computed"
    /\ heap[last.recv].typeInferer.k = "self"
    /\ last.typ = TypeDatabase
    /\ calls[last.recv] = 1

\* C5: no value has a non-unknown explicit type together with an instance
\* inferer; WithType and WithTypeInferer return a value with no cached
\* resolution and no in-progress mark; and Type() of a value follows the one
\* of the two that it carries.
C5_TypeXorInferer ==
    /\ \A p \in Natives :
           ~(heap[p].errType # TypeUnknown /\ heap[p].typeInferer # NoInf)
    /\ last.op \in {"WithType", "WithTypeInferer"} =>
           /\ heap[last.ret].computedErrType = NoCache
           /\ ~heap[last.ret].computing
    /\ (last.op = "Type" /\ last.path # "recursion") =>
           LET e == heap[last.recv]
           IN  /\ e.errType # TypeUnknown => last.typ = e.errType
               /\ (e.typeInferer.k = "const" /\ e.typeInferer.t # TypeUnknown)
                      => last.typ = e.typeInferer.t

\* C5 witness: Type() was computed on the result of WithType applied to a
\* value that carried an inferer.
C5_Witness ==
    /\ last.op = "Type"
    /\ last.path = "computed"
    /\ last.recv = 2
    /\ heap[1].typeInferer = ConstInf(EmptyType)
    /\ heap[2].errType = TypeDatabase
    /\ heap[2].typeInferer = NoInf
    /\ last.typ = TypeDatabase

(***************************************************************************)
(* SpecChain: cause chains whose levels carry a StackTraceInferer.         *)
(***************************************************************************)
MaxChainObjs == 4

TypeInferred == "inferred.database"

ChainInferers == {StackInf(TypeInferred), StackInf(EmptyType)}

ChainNewValues ==
    {New("a", <<[o |-> "WithType", a |-> TypeDatabase]>>)}
    \cup {New("a", <<[o |-> "WithTypeInferer", a |-> f]>>) : f \in ChainInferers}

UserStack == <<"f", "main">>

NextChain ==
    \/ DoNew(ChainNewValues, MaxChainObjs)
    \/ DoWithCause(Ptrs, {UserStack}, MaxChainObjs)
    \/ SetGlobalTypeInferer({StackInf(TypeGlobal)})
    \/ ClearGlobalTypeInferer
    \/ CallType("t1")
    \/ TypeSteps("t1")
    \/ MatcherReturn("t1")

SpecChain == Init /\ [][NextChain]_vars

\* The running call is never starved: Type() and the inferers are ordinary
\* sequential code.
SpecChainFair == SpecChain /\ WF_vars(TypeSteps("t1") \/ MatcherReturn("t1"))

\* Every value of the heap carries a cause-resolving inferer or an explicit
\* type (the chains of the claim).
ChainValues ==
    \A p \in Natives :
        heap[p].errType # TypeUnknown \/ heap[p].typeInferer.k = "stack"

\* C4: on a chain whose levels carry a cause-resolving inferer, a Type()
\* call nests at most one activation and one inferer per level (it
\* terminates), and from its start on no value's instance inferer is invoked
\* more than once.
C4_ChainResolvesOnce ==
    (ChainValues /\ last.op \in {"Type.begin", "Type"}) =>
        /\ Len(cs["t1"]) <= 2 * Len(heap)
        /\ \A p \in DOMAIN last.c0 : calls[p] - last.c0[p] <= 1

\* Termination alone: a started Type() call returns.
C4_Terminates == (cs["t1"] # <<>>) ~> (cs["t1"] = <<>>)

\* With no value resolving to the empty category, a call invokes each
\* value's inferer at most once.
C4_OnceUnlessEmpty ==
    (ChainValues /\ last.op \in {"Type.begin", "Type"}) =>
        \A p \in DOMAIN last.c0 :
            calls[p] - last.c0[p] > 1 => heap[p].typeInferer = StackInf(EmptyType)

(***************************************************************************)
(* The builder specification: user code builds values with every builder   *)
(* method, over native values and errors.New values of the standard        *)
(* library.                                                                *)
(***************************************************************************)
MaxBuildObjs == 3

BuildNewValues ==
    {New("a", <<>>), New("b", <<[o |-> "WithMessage", a |-> "d0"]>>)}

StatusNotFound == 404

NextBuild ==
    \/ DoNew(BuildNewValues, MaxBuildObjs)
    \/ DoStdNew(MaxBuildObjs)
    \/ DoWithReason({"reason"}, MaxBuildObjs)
    \/ DoWithMessage({"d1"}, MaxBuildObjs)
    \/ DoWithType({TypeDatabase}, MaxBuildObjs)
    \/ DoWithTypeInferer({ConstInf(TypeDatabase)}, MaxBuildObjs)
    \/ DoWithHTTPStatus({StatusNotFound}, MaxBuildObjs)
    \/ DoWithNotFound(MaxBuildObjs)
    \/ DoWithRetryable(MaxBuildObjs)
    \/ DoWithStackTraceCleaner({"cleaner"}, MaxBuildObjs)
    \/ DoWithStack({0, 1}, {UserStack}, MaxBuildObjs)
    \/ DoWithCallerStack({UserStack}, MaxBuildObjs)
    \/ DoWithCause(Ptrs, {UserStack}, MaxBuildObjs)

SpecBuild == Init /\ [][NextBuild]_vars

StackOps == {"WithStack", "WithCallerStack", "WithCause"}

\* C6: every builder call leaves every value that existed before the call
\* (the receiver and every earlier clone) with all its fields unchanged, and
\* after w = e.WithMessage(d) the payload of w is exactly d while e keeps the
\* payload it had.
C6_BuildersCopyOnWrite ==
    [][/\ \A i \in DOMAIN heap : i \in DOMAIN heap' /\ heap'[i] = heap[i]
       /\ (last'.op = "WithMessage" /\ last' # last) =>
              /\ heap'[last'.ret].messageData = last'.data
              /\ heap'[last'.recv].messageData = heap[last'.recv].messageData
              /\ last'.ret # last'.recv]_vars

\* A WithMessage call on a receiver that already had another payload.
C6_Witness ==
    /\ last.op = "WithMessage"
    /\ heap[last.recv].messageData = "d0"
    /\ heap[last.ret].messageData = "d1"

\* C7: a stack-capturing call (WithStack, WithCallerStack, WithCause) on a
\* value that already carries a captured stack returns the receiver itself;
\* no value is created, and its stacks and cause stay what they were.
C7_StackedIsNoOp ==
    [][(last'.op \in StackOps /\ last' # last /\ heap[last'.recv].isStacked) =>
           /\ last'.ret = last'.recv
           /\ heap' = heap
           /\ heap'[last'.ret].stacks = heap[last'.recv].stacks
           /\ heap'[last'.ret].cause = heap[last'.recv].cause]_vars

\* WithCause with a new cause on a value stacked by an earlier builder and
\* then cloned by another builder.
C7_Witness ==
    /\ last.op = "WithCause"
    /\ heap[last.recv].isStacked
    /\ heap[last.recv].messageData = "d1"
    /\ last.arg # heap[last.recv].cause
    /\ last.ret = last.recv

\* C8 as stated: for every receiver, the value returned by WithCause(c) has c
\* as its cause (Unwrap returns c, errors.Is finds c).
C8_CauseAttachedAlways ==
    last.op = "WithCause" =>
        /\ Unwrap(heap, last.ret) = last.arg
        /\ ErrorsIs(heap, last.ret, last.arg)

\* C8 (amended): for a receiver that has no captured stack yet, the value
\* returned by WithCause(c) has c as its cause: Unwrap returns c and
\* errors.Is(e.WithCause(c), c) is true.
C8_CauseAttached ==
    (last.op = "WithCause" /\ ~heap[last.recv].isStacked) =>
        /\ Unwrap(heap, last.ret) = last.arg
        /\ ErrorsIs(heap, last.ret, last.arg)

\* WithCause of an errors.New value on an unstacked receiver.
C8_Witness ==
    /\ last.op = "WithCause"
    /\ ~heap[last.recv].isStacked
    /\ heap[last.arg].kind = "leaf"
    /\ last.ret # last.recv

MaxWalkObjs == 4

WalkNewValues ==
    {New("a", <<[o |-> "WithType", a |-> TypeDatabase]>>),
     New("b", <<[o |-> "WithTypeInferer", a |-> StackInf(TypeDatabase)]>>)}

\* The argument lists of Join: two different members, or one and a nil.
JoinArgs == {<<i, j>> : i \in Ptrs, j \in (Ptrs \cup {Nil})} \ {<<i, i>> : i \in Ptrs}

Building == filter.state = "idle"

NextWalk ==
    \/ Building /\ DoNew(WalkNewValues, MaxWalkObjs)
    \/ Building /\ DoWithCause(Ptrs, {UserStack}, MaxWalkObjs)
    \/ Building /\ DoStdWrap(Ptrs, MaxWalkObjs)
    \/ Building /\ DoJoin(JoinArgs, MaxWalkObjs)
    \/ CallFilterByType("t1", Ptrs \cup {Nil}, {TypeDatabase})
    \/ WalkSteps("t1")
    \/ TypeSteps("t1")
    \/ MatcherReturn("t1")

SpecWalk == Init /\ [][NextWalk]_vars

\* The nodes one unwrap link below p.
Children(h, p) ==
    IF h[p].kind = "join" THEN {h[p].errs[i] : i \in DOMAIN h[p].errs} \ {Nil}
    ELSE {Unwrap(h, p)} \ {Nil}

\* The nodes reachable from root through unwrap links, root included.
RECURSIVE Reachable(_, _)
Reachable(h, root) ==
    IF root = Nil THEN {}
    ELSE {root} \cup UNION {Reachable(h, c) : c \in Children(h, root)}

Results == {filter.result[i] : i \in DOMAIN filter.result}

\* C10: when FilterByType(root, t) has returned, its result contains every
\* native value reachable from root through unwrap links whose Type() is t;
\* stated for the values that carry t as their explicit type, whose Type()
\* is t whatever the inferers do.
C10_FilterFindsAll ==
    filter.state = "returned" =>
        \A p \in Reachable(heap, filter.err) :
            (IsNative(heap, p) /\ heap[p].errType = filter.typ) => p \in Results

\* Every element of the result is a native value reachable from the root
\* whose Type() gave t, and no pointer is in the result twice; the result
\* for a nil root is empty.
C11_SoundNoDuplicates ==
    filter.state = "returned" =>
        /\ \A i \in DOMAIN filter.result :
              /\ IsNative(heap, filter.result[i])
              /\ filter.result[i] \in Reachable(heap, filter.err)
              /\ heap[filter.result[i]].computedErrType = filter.typ
        /\ \A i, j \in DOMAIN filter.result :
              filter.result[i] = filter.result[j] => i = j
        /\ filter.err = Nil => filter.result = <<>>

\* C11: the result of FilterByType(root, t) holds only native values
\* reachable from root whose Type() is t, holds no pointer twice, is empty
\* for a nil root, and two distinct reachable instances of type t that share
\* an id are both in it.
C11_FilterSoundDistinct ==
    filter.state = "returned" =>
        /\ C11_SoundNoDuplicates
        /\ \A p, q \in Reachable(heap, filter.err) :
              (/\ p # q
               /\ IsNative(heap, p) /\ IsNative(heap, q)
               /\ heap[p].id = heap[q].id
               /\ heap[p].errType = filter.typ /\ heap[q].errType = filter.typ)
              => (p \in Results /\ q \in Results)

\* Two distinct instances with one id, both reported (the case that works).
C11_BothReported ==
    /\ filter.state = "returned"
    /\ \E i, j \in DOMAIN filter.result :
          /\ i # j
          /\ heap[filter.result[i]].id = heap[filter.result[j]].id

(***************************************************************************)
(* The concurrent specification: two threads call Type() on the same       *)
(* values and set and clear the global inferer, interleaved at the grain   *)
(* of the lock operations and of the steps of Type().                      *)
(***************************************************************************)
MaxConcObjs == 2

ConcNewValues ==
    {New("a", <<[o |-> "WithTypeInferer", a |-> ConstInf(TypeDatabase)]>>),
     New("a", <<[o |-> "WithTypeInferer", a |-> SelfInf(TypeDatabase)]>>),
     New("b", <<>>)}

ConcGlobalInferers == {ConstInf(TypeGlobal)}

NextConc ==
    \/ DoNew(ConcNewValues, MaxConcObjs)
    \/ \E t \in Threads : CallType(t)
    \/ \E t \in Threads : LockedTypeSteps(t)
    \/ \E t \in Threads : CallSetGlobalTypeInferer(t, ConcGlobalInferers)
    \/ \E t \in Threads : CallClearGlobalTypeInferer(t)
    \/ \E t \in Threads : GlobalLock(t)
    \/ \E t \in Threads : GlobalWrite(t)
    \/ \E t \in Threads : GlobalUnlock(t)

SpecConc == Init /\ [][NextConc]_vars

\* C12: a Type() call on a value whose instance inferer returns the category
\* TypeDatabase (and that has no explicit type) returns TypeDatabase, as a
\* single sequential call does, whatever the other thread is doing.
C12_ConcurrentTypeAgrees ==
    (/\ last.op = "Type"
     /\ heap[last.recv].errType = TypeUnknown
     /\ heap[last.recv].typeInferer = ConstInf(TypeDatabase))
    => last.typ = TypeDatabase

\* C13: a thread writes globalInferer only while it holds infererMutex
\* exclusively and reads it only while it holds it shared; a writer excludes
\* every other writer and every reader; and the inferer a reader obtained is
\* nil or a value that a Set call stored.
C13_LockDiscipline ==
    /\ \A u \in Writing : infererMutex.writer = u
    /\ \A u \in Reading : u \in infererMutex.readers
    /\ Cardinality(Writing) <= 1
    /\ Writing # {} => Reading = {}
    /\ \A tk \in Live : FrameAt(tk).gi \in {NoInf} \cup stored

\* Two threads hold the shared lock at once, and one has read a stored value.
C13_Witness ==
    /\ Cardinality(Reading) = 2
    /\ \E u \in Reading : Top(cs[u]).pc = "runlock" /\ Top(cs[u]).gi \in stored \ {NoInf}

(***************************************************************************)
(* The global inferer and the cache, under Spec.                           *)
(***************************************************************************)
\* What the inferers of this model return for a value without explicit type
\* when invoked as the global inferer: their category (a self inferer's
\* inner e.Type() is short-circuited to TypeUnknown).
GlobalResult(inf) == inf.t

Plain(e) == e.errType = TypeUnknown /\ e.typeInferer = NoInf

\* C14 as stated: every Type() call on a value with no explicit type and no
\* instance inferer returns the result of the global inferer set at that
\* time when it is not TypeUnknown, and TypeUnknown when none is set.
C14_GlobalAlwaysApplies ==
    (last.op = "Type" /\ Plain(heap[last.recv])) =>
        /\ (globalInferer # NoInf /\ GlobalResult(globalInferer) # TypeUnknown)
              => last.typ = GlobalResult(globalInferer)
        /\ globalInferer = NoInf => last.typ = TypeUnknown

\* C14 (amended): the same for the Type() calls that compute, i.e. on a
\* value that holds no cached category from an earlier call.
C14_GlobalApplies ==
    (last.op = "Type" /\ Plain(heap[last.recv]) /\ last.path = "computed") =>
        /\ (globalInferer # NoInf /\ GlobalResult(globalInferer) # TypeUnknown)
              => last.typ = GlobalResult(globalInferer)
        /\ globalInferer = NoInf => last.typ = TypeUnknown

\* A computing call under a set global inferer returned its category.
C14_Witness ==
    /\ last.op = "Type"
    /\ Plain(heap[last.recv])
    /\ last.path = "computed"
    /\ globalInferer = ConstInf(TypeGlobal)
    /\ last.typ = TypeGlobal

\* C15: every Type() call of user code on a value returns what the first
\* such call on that value returned.
C15_FirstResultKept ==
    last.op = "Type" => last.typ = firstType[last.recv]

\* Apart from values whose first result was the empty category, the first
\* result is kept.
C15_KeptUnlessEmpty ==
    (last.op = "Type" /\ firstType[last.recv] # EmptyType) =>
        last.typ = firstType[last.recv]

(***************************************************************************)
(* The query specification: user code builds a tree of native values,      *)
(* errors.New values, fmt.Errorf wrappers and joins, and asks one of the    *)
(* queries Is, RootCause, IsNotFound, IsRetryable.  The queries change      *)
(* nothing, so a behaviour ends with its query: what follows a query is     *)
(* what follows the same state without it.                                  *)
(***************************************************************************)
MaxTreeObjs == 3

\* The argument lists of Join: none, only nils, and one or two values with
\* a nil before, between or after them.
TreeJoinArgs ==
    {<<>>, <<Nil>>, <<Nil, Nil>>}
        \cup {<<Nil, i>> : i \in Ptrs}
        \cup {<<i, j>> : i \in Ptrs, j \in Ptrs \cup {Nil}}
        \cup {<<i, Nil, j>> : i \in Ptrs, j \in Ptrs}

TreeNewValues ==
    {New("a", <<>>),
     New("a", <<[o |-> "WithType", a |-> TypeDatabase], [o |-> "WithNotFound", a |-> Nil]>>),
     New("b", <<[o |-> "WithRetryable", a |-> Nil]>>)}

QueryOps == {"Is", "RootCause", "IsNotFound", "IsRetryable"}

NotAsked == last.op \notin QueryOps

NextTree ==
    \/ NotAsked /\ DoNew(TreeNewValues, MaxTreeObjs)
    \/ NotAsked /\ DoStdNew(MaxTreeObjs)
    \/ NotAsked /\ DoStdWrap(Ptrs, MaxTreeObjs)
    \/ NotAsked /\ DoJoin(TreeJoinArgs, MaxTreeObjs)
    \/ NotAsked /\ DoWithCause(Ptrs, {UserStack}, MaxTreeObjs)
    \/ NotAsked /\ DoIs
    \/ NotAsked /\ DoRootCause(Ptrs \cup {Nil})
    \/ NotAsked /\ DoIsNotFound(Ptrs \cup {Nil})
    \/ NotAsked /\ DoIsRetryable(Ptrs \cup {Nil})

SpecTree == Init /\ [][NextTree]_vars

RECURSIVE Joined(_, _)
Joined(h, errs) ==
    IF Len(errs) = 1 THEN ErrorText(h, errs[1])
    ELSE ErrorText(h, Head(errs)) \o "; " \o Joined(h, Tail(errs))

\* C17: Join returns nil when it has no non-nil argument; otherwise it
\* returns a join node whose Unwrap() []error is the non-nil arguments in
\* their order and whose Error() is their Error() strings with "; " between.
C17_JoinNonNilInOrder ==
    last.op = "Join" =>
        LET given == SelectSeq(last.args, LAMBDA x : x # Nil)
        IN  IF given = <<>> THEN last.ret = Nil
            ELSE /\ last.ret # Nil
                 /\ heap[last.ret].kind = "join"
                 /\ heap[last.ret].errs = given
                 /\ ErrorText(heap, last.ret) = Joined(heap, given)

\* Join(a, nil, b) with two different values.
C17_Witness ==
    /\ last.op = "Join"
    /\ Len(last.args) = 3
    /\ last.args[2] = Nil
    /\ last.ret # Nil
    /\ Len(heap[last.ret].errs) = 2
    /\ ErrorText(heap, last.ret) = "a; std"

\* The nodes of the single-unwrap chain that starts at err.
RECURSIVE UnwrapChain(_, _)
UnwrapChain(h, err) ==
    IF err = Nil THEN {} ELSE {err} \cup UnwrapChain(h, Unwrap(h, err))

C19_FlagAnywhereInChain ==
    /\ last.op = "IsNotFound" =>
          last.ok = (\E p \in Reachable(heap, last.recv) :
                        IsNative(heap, p) /\ heap[p].isNotFound)
    /\ last.op = "IsRetryable" =>
          last.ok = (\E p \in Reachable(heap, last.recv) :
                        IsNative(heap, p) /\ heap[p].isRetryable)

\* What the predicates do give: the mark of the first native value that
\* errors.As finds.
C19_FlagOfFirstNative ==
    /\ last.op = "IsNotFound" =>
          last.ok = (ErrorsAs(heap, last.recv) # Nil
                        /\ heap[ErrorsAs(heap, last.recv)].isNotFound)
    /\ last.op = "IsRetryable" =>
          last.ok = (ErrorsAs(heap, last.recv) # Nil
                        /\ heap[ErrorsAs(heap, last.recv)].isRetryable)

(***************************************************************************)
(* The stack-inferer specification: user code builds values that carry a   *)
(* StackTraceInferer, captures snapshots with WithStack (at a skip that    *)
(* leaves frames and at one that leaves none), WithCallerStack and         *)
(* WithCause, installs a StackTraceInferer globally, and asks for types.   *)
(***************************************************************************)
MaxStackObjs == 3

StackNewValues ==
    {New("a", <<[o |-> "WithTypeInferer", a |-> StackInf(TypeDatabase)]>>),
     New("c", <<[o |-> "WithType", a |-> TypeDatabase]>>)}

\* WithStack's skip: 0, and a skip past every frame of the goroutine.
StackSkips == {0, Len(UserStack)}

\* The causes attached: the values carrying an explicit category.
StackCauses == {p \in Ptrs : heap[p].errType # TypeUnknown}

NextStack ==
    \/ DoNew(StackNewValues, MaxStackObjs)
    \/ DoWithStack(StackSkips, {UserStack}, MaxStackObjs)
    \/ DoWithCallerStack({UserStack}, MaxStackObjs)
    \/ DoWithCause(StackCauses, {UserStack}, MaxStackObjs)
    \/ CallType("t1")
    \/ TypeSteps("t1")
    \/ MatcherReturn("t1")

SpecStack == Init /\ [][NextStack]_vars

\* The most recent snapshot of e exists and holds a frame.
HasFrames(e) == e.stacks # <<>> /\ Head(e.stacks).Frames # <<>>

\* The names of the builder calls made so far on the way to each value are
\* not kept; isStacked is set by WithStack, WithCallerStack and WithCause and
\* by nothing else, and every clone inherits it.
WentThroughStackOp(e) == e.isStacked

\* C20: the matcher of a StackTraceInferer is invoked
\* only on a value that went through WithStack, WithCallerStack or WithCause
\* and whose most recent snapshot holds a frame; on a value with no snapshot,
\* or whose most recent snapshot has no frames, a StackTraceInferer set on
\* the instance returns TypeUnknown.
C20_NoSnapshotNoMatcher ==
    /\ \A i \in DOMAIN cs["t1"] :
          LET fr == cs["t1"][i]
          IN  (fr.f = "Inf" /\ fr.inf.k = "stack" /\ fr.pc = "match") =>
                  /\ HasFrames(heap[fr.obj])
                  /\ WentThroughStackOp(heap[fr.obj])
    /\ (/\ last.op = "Type"
        /\ last.path = "computed"
        /\ heap[last.recv].typeInferer.k = "stack"
        /\ ~HasFrames(heap[last.recv])) => last.ir = TypeUnknown

\* A Type() call returned for a value that carries a StackTraceInferer and
\* no snapshot at all.
C20_Witness ==
    /\ last.op = "Type"
    /\ last.path = "computed"
    /\ heap[last.recv].typeInferer.k = "stack"
    /\ heap[last.recv].stacks = <<>>
    /\ last.ir = TypeUnknown

\* A Type() call returned for a value whose most recent snapshot is empty.
C20_EmptySnapshot ==
    /\ last.op = "Type"
    /\ last.path = "computed"
    /\ heap[last.recv].typeInferer.k = "stack"
    /\ heap[last.recv].stacks # <<>>
    /\ ~HasFrames(heap[last.recv])

\* The matcher is being invoked with a database cause.
C20_MatcherInvoked ==
    \E i \in DOMAIN cs["t1"] :
        /\ cs["t1"][i].f = "Inf"
        /\ cs["t1"][i].pc = "match"
        /\ cs["t1"][i].rv = TypeDatabase

(***************************************************************************)
(* The combinator specification: user code builds values whose instance    *)
(* inferer is ChainInferers(f1, ..., fn) over simple inferers, installs    *)
(* such a chain globally, and asks for types.                              *)
(***************************************************************************)
MaxCombObjs == 1

MaxChain == 2

TypeValidation == "errorsx.validation"

ChainMembers == {ConstInf(TypeUnknown), ConstInf(TypeDatabase), SelfInf(TypeValidation)}

Chains == {ChainInf(fs) : fs \in SeqsUpTo(ChainMembers, MaxChain)}

CombNewValues ==
    {New("a", <<[o |-> "WithTypeInferer", a |-> c]>>) : c \in Chains}

CombGlobalInferers ==
    {ChainInf(<<>>), ChainInf(<<ConstInf(TypeUnknown), ConstInf(TypeGlobal)>>)}

NextComb ==
    \/ DoNew(CombNewValues, MaxCombObjs)
    \/ SetGlobalTypeInferer(CombGlobalInferers)
    \/ CallType("t1")
    \/ TypeSteps("t1")
    \/ ChainStep("t1")

SpecComb == Init /\ [][NextComb]_vars

\* The index of the first member of the chain fs that is not the constant
\* TypeUnknown inferer, 0 when there is none.
FirstKnown(fs) ==
    IF \E i \in DOMAIN fs : fs[i].t # TypeUnknown
    THEN CHOOSE i \in DOMAIN fs :
            /\ fs[i].t # TypeUnknown
            /\ \A j \in 1..(i - 1) : fs[j].t = TypeUnknown
    ELSE 0

\* The frames of running ChainInferers inferers.
ChainFrames ==
    {i \in DOMAIN cs["t1"] : cs["t1"][i].f = "Inf" /\ cs["t1"][i].inf.k = "chain"
                              /\ cs["t1"][i].pc \in {"loop", "waitmember"}}

\* C21: the inferer of ChainInferers(f1, ..., fn) invokes its members in
\* order on the same error, never one after a member that returned a
\* category other than TypeUnknown, and when it returns it returns fi(e) for
\* the smallest i with fi(e) # TypeUnknown, TypeUnknown when there is no
\* such i (n = 0 included).
C21_ChainFirstKnown ==
    /\ [](\A i \in ChainFrames :
            LET fr == cs["t1"][i]
                fs == fr.inf.t
                done == IF fr.pc = "loop" THEN fr.k ELSE fr.k - 1
            IN  /\ Len(fr.ir) = done
                /\ fr.k <= Len(fs)
                /\ \A j \in 1..done : fr.ir[j] = fs[j].t
                /\ \A j \in 1..(fr.k - 1) : fs[j].t = TypeUnknown)
    /\ [][(Running("t1", "Inf", "loop") /\ Len(cs'["t1"]) < Len(cs["t1"])) =>
            LET fs == Top(cs["t1"]).inf.t
                v == IF FirstKnown(fs) = 0 THEN TypeUnknown ELSE fs[FirstKnown(fs)].t
            IN  /\ Top(cs["t1"]).k = (IF FirstKnown(fs) = 0 THEN Len(fs) ELSE FirstKnown(fs))
                /\ cs'["t1"] = Return(cs["t1"], v)]_vars

\* A chain of two members is about to return the category of its first
\* member, the second not invoked.
C21_Witness ==
    /\ Running("t1", "Inf", "loop")
    /\ Len(Top(cs["t1"]).inf.t) = 2
    /\ Top(cs["t1"]).k = 1
    /\ Top(cs["t1"]).rv = TypeDatabase

\* A chain whose members all returned TypeUnknown is about to return.
C21_AllUnknown ==
    /\ Running("t1", "Inf", "loop")
    /\ Len(Top(cs["t1"]).inf.t) = 2
    /\ Top(cs["t1"]).k = 2
    /\ Top(cs["t1"]).rv = TypeUnknown

(***************************************************************************)
(* C22: the flag builders.                                                 *)
(***************************************************************************)
\* e and w agree on every field but f.
SameBut(e, w, f) == \A g \in (DOMAIN e) \ {f} : e[g] = w[g]

\* C22: the copy returned by WithNotFound, WithRetryable and WithHTTPStatus
\* differs from the receiver in that builder's own field only (the flag is
\* true, the status is the argument); every builder call on a value whose
\* not-found (retryable) flag is true returns a value whose flag is true.
C22_FlagsIndependent ==
    [][(last' # last /\ IsNative(heap, last'.recv)) =>
          LET e == heap[last'.recv]
              w == heap'[last'.ret]
          IN  /\ last'.op = "WithNotFound" =>
                    w.isNotFound /\ SameBut(e, w, "isNotFound")
              /\ last'.op = "WithRetryable" =>
                    w.isRetryable /\ SameBut(e, w, "isRetryable")
              /\ last'.op = "WithHTTPStatus" =>
                    w.status = last'.arg /\ SameBut(e, w, "status")
              /\ e.isNotFound => w.isNotFound
              /\ e.isRetryable => w.isRetryable]_vars

\* WithRetryable was called on a not-found value: the result carries both
\* flags.
C22_Witness ==
    /\ last.op = "WithRetryable"
    /\ heap[last.recv].isNotFound
    /\ ~heap[last.recv].isRetryable
    /\ heap[last.ret].isNotFound
    /\ heap[last.ret].isRetryable

(***************************************************************************)
(* The capture specification: user code, running in the function f called  *)
(* by main or in g called by f, captures snapshots with WithStack at the   *)
(* skips 0 and 1, WithCallerStack and WithCause, and wraps foreign errors   *)
(* with ReplaceMessage.                                                    *)
(***************************************************************************)
MaxOriginObjs == 4

UserStacks == {<<"f", "main">>, <<"g", "f", "main">>}

\* The functions of the package and of the runtime on a capturing path.
LibraryFrames ==
    {"runtime.Callers", "callersWithSkip", "callers", "WithStack",
     "WithCallerStack", "WithCause", "ReplaceMessage"}

OriginSkips == {0, 1}

NextOrigin ==
    \/ DoNew({New("a", <<>>)}, MaxOriginObjs)
    \/ DoStdNew(MaxOriginObjs)
    \/ DoWithReason({"reason"}, MaxOriginObjs)
    \/ DoWithStack(OriginSkips, UserStacks, MaxOriginObjs)
    \/ DoWithCallerStack(UserStacks, MaxOriginObjs)
    \/ DoWithCause(Ptrs, UserStacks, MaxOriginObjs)
    \/ DoReplaceMessage(Ptrs, {"d1"}, UserStacks, MaxOriginObjs)

SpecOrigin == Init /\ [][NextOrigin]_vars

\* The direct calls: WithStack(0) starts at its caller and WithStack(k)
\* drops k more frames, WithCallerStack and WithCause start at their caller.
C23_DirectCallsStartAtCaller ==
    [][(last' # last /\ last'.op \in StackOps /\ last'.ret # last'.recv) =>
          LET frames == heap'[last'.ret].stacks[1].Frames
          IN  \E user \in UserStacks :
                 /\ last'.op = "WithStack" =>
                       frames = SubSeq(user, last'.arg + 1, Len(user))
                 /\ last'.op \in {"WithCallerStack", "WithCause"} => frames = user]_vars

\* C23: the first frame of every snapshot is a function of user code, the
\* one that called WithStack, WithCallerStack or WithCause (WithStack(k): k
\* frames further out); no function of the library is the first frame.
C23_FirstFrameIsCaller ==
    \A p \in Natives :
        \A i \in DOMAIN heap[p].stacks :
            heap[p].stacks[i].Frames # <<>> =>
                Head(heap[p].stacks[i].Frames) \notin LibraryFrames

\* ReplaceMessage wrapped a foreign error.
C23_ReplaceMessageWrapped ==
    /\ last.op = "ReplaceMessage"
    /\ heap[last.ret].cause = last.arg
    /\ Head(heap[last.ret].stacks[1].Frames) = "ReplaceMessage"

(***************************************************************************)
(* C24: snapshots.                                                         *)
(***************************************************************************)
\* C24: a snapshot captured by WithStack, WithCallerStack or WithCause has
\* as Msg the message the receiver had at the call; every call leaves the
\* snapshots of every existing value as they were, the value returned by a
\* builder that captures nothing holds exactly the receiver's snapshots,
\* and the value returned by a capturing call holds the new snapshot
\* followed by the receiver's and (WithCause of a native cause) the cause's
\* snapshots, Msg and Frames unchanged.
C24_SnapshotsImmutable ==
    [][last' # last =>
          /\ \A p \in DOMAIN heap : heap'[p].stacks = heap[p].stacks
          /\ (IsNative(heap, last'.recv) /\ last'.ret # last'.recv) =>
                LET e == heap[last'.recv]
                    w == heap'[last'.ret]
                    n == Len(e.stacks)
                IN  IF last'.op \in StackOps
                    THEN /\ w.stacks[1].Msg = e.msg
                         /\ SubSeq(w.stacks, 2, n + 1) = e.stacks
                         /\ (last'.op = "WithCause" /\ IsNative(heap, last'.arg)) =>
                               SubSeq(w.stacks, n + 2, Len(w.stacks))
                                   = heap[last'.arg].stacks
                    ELSE w.stacks = e.stacks]_vars

\* WithReason was called on a value with a snapshot: the result has the new
\* message, its snapshot the old one.
C24_Witness ==
    /\ last.op = "WithReason"
    /\ heap[last.recv].stacks # <<>>
    /\ heap[last.ret].msg = "reason"
    /\ heap[last.ret].stacks[1].Msg # "reason"

\* A value with a snapshot was wrapped as the cause of another error.
C24_WrappedAsCause ==
    /\ last.op = "WithCause"
    /\ last.ret # last.recv
    /\ IsNative(heap, last.arg)
    /\ heap[last.arg].stacks # <<>>
    /\ Len(heap[last.ret].stacks) = 1 + Len(heap[last.arg].stacks)

(***************************************************************************)
(* The trace specification: user code builds chains of native values and   *)
(* fmt.Errorf wrappers, capturing in f (WithCallerStack) and in g          *)
(* (WithCause), then asks once for the root stack trace of a value.        *)
(***************************************************************************)
MaxTraceObjs == 4

TraceAsked == last.op = "RootStackTrace"

NextTrace ==
    \/ ~TraceAsked /\ DoNew({New("a", <<>>)}, MaxTraceObjs)
    \/ ~TraceAsked /\ DoStdWrap(Ptrs, MaxTraceObjs)
    \/ ~TraceAsked /\ DoWithCallerStack({<<"f", "main">>}, MaxTraceObjs)
    \/ ~TraceAsked /\ DoWithCause(Ptrs, {<<"g", "f", "main">>}, MaxTraceObjs)
    \/ ~TraceAsked /\ DoRootStackTrace(Ptrs \cup {Nil})

SpecTrace == Init /\ [][NextTrace]_vars

\* The innermost native value with a snapshot on the errors.Unwrap chain of
\* err, best when there is none from err on.
RECURSIVE RootMost(_, _, _)
RootMost(h, err, best) ==
    IF err = Nil THEN best
    ELSE RootMost(h, Unwrap(h, err),
                  IF IsNative(h, err) /\ h[err].stacks # <<>> THEN err ELSE best)

\* C25: RootStackTrace(err) is the formatted snapshot that the innermost
\* native value with a snapshot on err's unwrap chain captured itself (its
\* first snapshot), and the empty string when the chain has no such value.
C25_RootMostSnapshot ==
    last.op = "RootStackTrace" =>
        LET r == RootMost(heap, last.recv, Nil)
        IN  last.data = IF r = Nil THEN ""
                        ELSE formatStackTrace(heap[r].stacks[1])

\* For chains of native values only the claim holds: a native value holds
\* the snapshots of its native cause behind its own.
RECURSIVE AllNative(_, _)
AllNative(h, err) ==
    err = Nil \/ (IsNative(h, err) /\ AllNative(h, h[err].cause))

C25_NativeChains ==
    (last.op = "RootStackTrace" /\ AllNative(heap, last.recv)) =>
        LET r == RootMost(heap, last.recv, Nil)
        IN  last.data = IF r = Nil THEN ""
                        ELSE formatStackTrace(heap[r].stacks[1])

\* The root stack trace of a native chain of two snapshots was asked for.
C25_NativeChainAsked ==
    /\ last.op = "RootStackTrace"
    /\ AllNative(heap, last.recv)
    /\ last.recv # Nil
    /\ Len(heap[last.recv].stacks) = 2
    /\ last.data = "f.go:1 f\nmain.go:1 main"

(***************************************************************************)
(* C26: clones of resolved values.                                         *)
(***************************************************************************)
\* What the priority chain computes for the value p of SpecStack (no global
\* inferer is registered there, and every cause carries an explicit type):
\* the explicit type, else what the StackTraceInferer gives for p's own
\* snapshot and cause.
StackPriority(h, p) ==
    LET e == h[p]
        viaInferer ==
            IF e.typeInferer.k = "stack" /\ HasFrames(e)
            THEN Matcher(e.typeInferer,
                         IF e.cause = Nil THEN "" ELSE h[e.cause].errType)
            ELSE TypeUnknown
    IN  IF e.errType # TypeUnknown THEN e.errType ELSE viaInferer

\* C26: the first Type() call on a value returns what the priority chain
\* computes for that value's own fields, whether or not the value it was
\* cloned from had been resolved before the clone was made.
C26_CloneResolvesAfresh ==
    \A p \in Natives :
        firstType[p] # NoType => firstType[p] = StackPriority(heap, p)

\* Whenever Type() runs the computation, it returns what the priority chain
\* computes for the value.
C26_ComputedIsPriority ==
    (last.op = "Type" /\ last.path = "computed") =>
        last.typ = StackPriority(heap, last.recv)

\* Type() returned for a value that was given a database cause after the
\* value it was cloned from had been resolved to TypeUnknown.
C26_CloneOfResolved ==
    /\ last.op = "Type"
    /\ last.path = "cached"
    /\ firstType[last.recv] = last.typ
    /\ last.typ = TypeUnknown
    /\ StackPriority(heap, last.recv) = TypeDatabase

(***************************************************************************)
(* The mark specification: user code builds values whose inferer copies    *)
(* its argument with a builder, and asks for the types of the values and   *)
(* of the copies.                                                          *)
(***************************************************************************)
MaxMarkObjs == 2

MarkNewValues ==
    {New("a", <<[o |-> "WithTypeInferer", a |-> CloneInf(TypeDatabase)]>>),
     New("b", <<[o |-> "WithTypeInferer", a |-> CloneInf(TypeUnknown)]>>),
     New("c", <<[o |-> "WithTypeInferer", a |-> SelfInf(TypeDatabase)]>>)}

NextMark ==
    \/ DoNew(MarkNewValues, MaxMarkObjs)
    \/ DoWithMessage({"d1"}, MaxMarkObjs)
    \/ CallType("t1")
    \/ TypeSteps("t1")
    \/ InfererClones("t1")

SpecMark == Init /\ [][NextMark]_vars

\* A Type() call on p is active.
TypeActive(p) ==
    \E t \in Threads : \E i \in DOMAIN cs[t] :
        cs[t][i].f = "Type" /\ cs[t][i].obj = p

\* C27: a value carries the in-progress mark only while a Type() call on
\* that value is active, so no Type() call made by user code takes the
\* recursion short-circuit.
C27_MarkOnlyWhileActive ==
    /\ \A p \in Natives : heap[p].computing => TypeActive(p)
    /\ last.op = "Type" => last.path # "recursion"

\* The values built by user code outside of inferers never carry a stale
\* mark: at the return of every builder call made while no Type() call
\* runs, the result is unmarked if the receiver is.
C27_UserClonesUnmarked ==
    (last.op = "WithMessage" /\ ~heap[last.recv].computing) =>
        ~heap[last.ret].computing

\* User code asked for the type of a copy an inferer had made, and the
\* call took the recursion short-circuit.
C27_StaleMarkSeen ==
    /\ last.op = "Type"
    /\ last.path = "recursion"
    /\ cs["t1"] = <<>>
    /\ heap[last.recv].computing
    /\ heap[last.recv].typeInferer = CloneInf(TypeDatabase)
    /\ last.typ = TypeUnknown

(***************************************************************************)
(* C28: the captured-stack flag.                                           *)
(***************************************************************************)
\* C28: in every native value isStacked is true exactly when the value
\* holds a snapshot, and a value with a cause has the flag; a builder call
\* on a value with the flag returns a value with the flag.
C28_FlagMeansSnapshot ==
    /\ [](\A p \in Natives :
            /\ heap[p].isStacked <=> heap[p].stacks # <<>>
            /\ heap[p].cause # Nil => heap[p].isStacked)
    /\ [][(last' # last /\ IsNative(heap, last'.recv)) =>
             (heap[last'.recv].isStacked => heap'[last'.ret].isStacked)]_vars

\* WithReason was called on a value that holds a cause and a snapshot.
C28_Witness ==
    /\ last.op = "WithReason"
    /\ heap[last.recv].cause # Nil
    /\ heap[last.recv].isStacked
    /\ heap[last.ret].isStacked
    /\ heap[last.ret].stacks # <<>>

(***************************************************************************)
(* The re-entrancy specification: thread t1 asks for the types of plain    *)
(* values while the registered global inferer itself calls                 *)
(* SetGlobalTypeInferer, ClearGlobalTypeInferer or (a StackTraceInferer on *)
(* a value with a native cause) Type() on another error; thread t2 sets    *)
(* the global inferer from user code meanwhile.                            *)
(***************************************************************************)
MaxReentObjs == 2

ReentGlobalInferers ==
    {SetterInf(TypeGlobal), ClearerInf(TypeUnknown), StackInf(TypeGlobal)}

\* The causes attached: values that have no cause themselves.
ReentCauses == {p \in Natives : heap[p].cause = Nil}

NextReent ==
    \/ DoNew({New("a", <<>>)}, MaxReentObjs)
    \/ DoWithCause(ReentCauses, {UserStack}, MaxReentObjs)
    \/ CallType("t1")
    \/ LockedTypeSteps("t1")
    \/ MatcherReturn("t1")
    \/ InfererCallsRegistry("t1")
    \/ CallSetGlobalTypeInferer("t2", ReentGlobalInferers)
    \/ \E t \in Threads : GlobalLock(t)
    \/ \E t \in Threads : GlobalWrite(t)
    \/ \E t \in Threads : GlobalUnlock(t)

SpecReent == Init /\ [][NextReent]_vars

\* Thread t waits for infererMutex: in Lock, or in RLock.
Blocked(t) ==
    /\ cs[t] # <<>>
    /\ \/ InSetOrClear(t, "lock") /\ ~CanLock(infererMutex)
       \/ Running(t, "Type", "global") /\ ~CanRLock(infererMutex)

\* The threads that hold infererMutex, in either mode.
Holders == infererMutex.readers \cup (IF infererMutex.writer = "none" THEN {}
                                     ELSE {infererMutex.writer})

\* An inferer runs in thread t.
InfererRuns(t) == \E i \in DOMAIN cs[t] : cs[t][i].f = "Inf"

\* C29: a thread holds infererMutex shared only in tryGlobalInferer between
\* RLock and RUnlock, the copy of the global inferer taken in between, and
\* no inferer that tryGlobalInferer invoked runs while its thread holds the
\* shared lock; so a thread that waits for the lock never waits for itself
\* or for a thread that is running an inferer it invoked under the lock:
\* every holder is at a step that no lock guards.
C29_InfererRunsUnlocked ==
    /\ \A t \in infererMutex.readers :
          /\ cs[t] # <<>>
          /\ Top(cs[t]).f = "Type"
          /\ Top(cs[t]).pc \in {"read", "runlock"}
    /\ \A t \in Threads :
          infererMutex.writer = t =>
              /\ cs[t] # <<>>
              /\ Top(cs[t]).f \in {"SetGlobalTypeInferer", "ClearGlobalTypeInferer"}
              /\ Top(cs[t]).pc \in {"write", "unlock"}
    /\ \A t \in Threads : Blocked(t) => \A h \in Holders : h # t /\ ~Blocked(h)

\* An inferer invoked by tryGlobalInferer called SetGlobalTypeInferer and
\* holds the exclusive lock, while the other thread waits to write.
C29_Witness ==
    /\ infererMutex.writer = "t1"
    /\ InfererRuns("t1")
    /\ Len(cs["t1"]) = 3
    /\ InSetOrClear("t2", "lock")


(***************************************************************************)
(* The three-argument StackTraceInferer and the Type() method of the       *)
(* revision that carries it.  That Type() keeps no cache and no in-progress*)
(* mark, and its StackTraceInferer never calls Type(), so a resolution is  *)
(* a function of the heap; each result carries the matcher invocations     *)
(* made on the way, in order.                                              *)
(***************************************************************************)
MaxFormObjs == 3

\* reflectErrorType(err): package path and type name of the error.
reflectErrorType(h, err) ==
    IF err = Nil THEN "undefined"
    ELSE IF IsNative(h, err) THEN "errorsx.Error"
    ELSE ReflectName(h[err])

\* The user's three-argument matcher: inf.t when the root cause is an error
\* of the standard library.
Matcher3(inf, errorType, rootCauseType) ==
    IF rootCauseType = "errors.errorString" THEN inf.t ELSE TypeUnknown

NoInvocation == [v |-> TypeUnknown, log |-> <<>>]

\* The closure StackTraceInferer(fn) applied to e.
StackTraceInferer(h, e, inf) ==
    IF ~extractErrorFrame(h[e]) THEN NoInvocation
    ELSE LET rootCause == RootCause(h, e)
             rootCauseType == IF rootCause = e THEN ""
                              ELSE reflectErrorType(h, rootCause)
         IN  [v   |-> Matcher3(inf, h[e].errType, rootCauseType),
              log |-> <<[errorType |-> h[e].errType,
                         rootCauseType |-> rootCauseType, obj |-> e]>>]

\* An inferer applied to e; the closure of ChainInferers returns the first
\* member result that is not TypeUnknown.
RECURSIVE Infer(_, _, _)
RECURSIVE InferChain(_, _, _, _, _)
Infer(h, e, inf) ==
    CASE inf.k = "stack" -> StackTraceInferer(h, e, inf)
      [] inf.k = "chain" -> InferChain(h, e, inf.t, 1, <<>>)
      [] OTHER           -> [v |-> inf.t, log |-> <<>>]

InferChain(h, e, inferers, i, log) ==
    IF i > Len(inferers) THEN [v |-> TypeUnknown, log |-> log]
    ELSE LET r == Infer(h, e, inferers[i])
         IN  IF r.v # TypeUnknown THEN [v |-> r.v, log |-> log \o r.log]
             ELSE InferChain(h, e, inferers, i + 1, log \o r.log)

\* (mutant) the inferers are consulted before the explicit type.
TypeAsksInferersFirst(h, e, global) ==
    LET inst == IF h[e].typeInferer # NoInf
                THEN Infer(h, e, h[e].typeInferer) ELSE NoInvocation
        glob == IF global # NoInf THEN Infer(h, e, global) ELSE NoInvocation
    IN  IF inst.v # TypeUnknown THEN inst
        ELSE IF glob.v # TypeUnknown
        THEN [v |-> glob.v, log |-> inst.log \o glob.log]
        ELSE [v |-> h[e].errType, log |-> inst.log \o glob.log]

\* (*Error).Type() of that revision: the explicit type, then the instance
\* inferer, then the global inferer.
Type(h, e, global) ==
    IF h[e].errType # TypeUnknown THEN [v |-> h[e].errType, log |-> <<>>]
    ELSE LET inst == IF h[e].typeInferer # NoInf
                     THEN Infer(h, e, h[e].typeInferer) ELSE NoInvocation
         IN  IF inst.v # TypeUnknown THEN inst
             ELSE LET glob == IF global # NoInf
                              THEN Infer(h, e, global) ELSE NoInvocation
                  IN  [v |-> glob.v, log |-> inst.log \o glob.log]

DoType(errs) ==
    \E e \in errs :
        /\ Idle("t1")
        /\ LET r == Type(heap, e, globalInferer)
           IN  last' = [NoLast EXCEPT !.op = "Type3", !.recv = e,
                                      !.typ = r.v, !.args = r.log]
        /\ UNCHANGED <<heap, globalInferer, cs, calls, filter, infererMutex,
                       stored, firstType>>

FormNewValues ==
    {New("a", <<>>),
     New("b", <<[o |-> "WithType", a |-> TypeDatabase]>>),
     New("c", <<[o |-> "WithTypeInferer", a |-> StackInf(TypeDatabase)]>>),
     New("d", <<[o |-> "WithTypeInferer",
                 a |-> ChainInf(<<ConstInf(TypeUnknown),
                                  StackInf(TypeValidation)>>)]>>)}

FormAsked == last.op = "Type3"

NextForm ==
    \/ ~FormAsked /\ DoNew(FormNewValues, MaxFormObjs)
    \/ ~FormAsked /\ DoStdNew(MaxFormObjs)
    \/ ~FormAsked /\ DoWithCallerStack({<<"f", "main">>}, MaxFormObjs)
    \/ ~FormAsked /\ DoWithCause(Ptrs, {<<"g", "f", "main">>}, MaxFormObjs)
    \/ ~FormAsked /\ SetGlobalTypeInferer({StackInf(TypeGlobal)})
    \/ ~FormAsked /\ DoType(Natives)

SpecForm == Init /\ [][NextForm]_vars

\* C30: every matcher invocation made by a Type() call receives TypeUnknown
\* as its errorType argument, and receives the empty string as its
\* rootCauseType argument exactly when the error has no cause; this holds
\* for the instance inferer, the global inferer and a member of
\* ChainInferers alike.
C30_MatcherArguments ==
    last.op = "Type3" =>
        \A i \in DOMAIN last.args :
            /\ last.args[i].obj = last.recv
            /\ last.args[i].errorType = TypeUnknown
            /\ (last.args[i].rootCauseType = "") <=> (heap[last.recv].cause = Nil)

\* The matcher ran twice in one call, inside a chain and as global inferer,
\* on an error that has a cause.
C30_Witness ==
    /\ last.op = "Type3"
    /\ Len(last.args) = 2
    /\ heap[last.recv].typeInferer.k = "chain"
    /\ heap[last.recv].cause # Nil
    /\ last.args[1].rootCauseType = "errorsx.Error"
    /\ last.args[2].rootCauseType = "errorsx.Error"

\* The matcher ran as instance inferer on an error without a cause.
C30_NoCauseInvoked ==
    /\ last.op = "Type3"
    /\ Len(last.args) >= 1
    /\ heap[last.recv].typeInferer.k = "stack"
    /\ heap[last.recv].cause = Nil

====
